# A verification project for the diy tool suite

The repository holds the diy tools for relaxed memory models: **litmus** runs
small concurrent tests on hardware, **herd** simulates them under a model,
**gen** (diy, diyone, diycross) makes tests out of cycles of relaxations, and
**tools** filters tests and logs.  This directory models the part of it that is
itself a concurrent program: the C runtime of litmus and the C program that
litmus generates around each test.  A fault there does not crash; it makes the
histogram of outcomes wrong, or blocks a campaign, on some machine, sometimes.

Paths below are relative to `src/`.

## 1. Inventory

### 1.1 litmus, the generated program and its runtime (modelled)

| Component | State | Operations | Correct when |
|---|---|---|---|
| Sense barrier, `litmus/_x86/barrier.c` and the same for ppc (two versions), arm, aarch64, mips | `c`, `sense`, `n` | `barrier_init`, `barrier_wait` | nobody overtakes a round; reusable at once; everybody gets out; who is out sees the stores made before |
| Pthread barrier, `litmus/_utils.c` | `count`, `turn`, a mutex, a condition | `pb_create`, `pb_wait` | the same, with spurious wake ups |
| Or flag, `litmus/_utils.c` | the same and `val` | `po_create`, `po_reinit`, `po_wait` | all get the disjunction of the bits of this use |
| Stabilisation, `litmus/skel.ml` (`-safer all`) | copies of the locations, the or flag | `stabilize_globals` | all stop at the same turn, on final values |
| Iteration barriers, `litmus/skel.ml`, `litmus/defString.ml` (`-barrier user`, `user2`, `timebase`, `pthread`) | cells, `next_tb`, or a `pb_t` and a delay word | `barrier_wait`, `reinit` | a thread follows the leader of its iteration; no thread is ahead by more than a rotation of the lead; one target per iteration; no run blocks |
| Detached threads, `litmus/_utils.c` | one place buffers, on the heap | `launch_detached`, `zyva_det`, `op_set`, `op_get`, `op_free`, `join_detached` | each joiner gets the result of its own thread; no buffer is used after it is freed |
| Harness, `litmus/skel.ml`, `litmus/defString.ml` | `stop_now`, `cpus`, histograms | `run`, `zyva`, the test threads | instances stop together, do not crowd on a processor, lose no outcome |
| Histograms, `litmus/_outs.c`, `litmus/defString.ml` | a lexicographic tree, two counters | `add_outcome`, `merge_hists`, `sum_hist`, `same_hist`, `dump_outs` | it is a bag of outcomes |
| Command line, `litmus/_utils.c`, `litmus/_presi.c` | the options, `errno` | `parse_cmd`, `parse_opt`, `parse_param`, conversions | an accepted command line is obeyed; a refusal is deserved |
| Allocation of processors, `litmus/skel.ml`, `litmus/_utils.c`, `litmus/topology.ml` | `next_cpu` and `start_scan`; the array to shuffle; the processors left on each core; the rows of `cpu_scan` and the processors taken on each core | the loop of `run`, `gcd`; `perm_prefix_ints`; `coremap_seq`, `coremap_end`, `custom_affinity`; `part`, `alloc_instances` | even use; fair shuffles; one processor per thread, far threads apart; each way to share cores and sockets is one row, and each instance is placed that way |
| Random numbers, `litmus/_litmus_rand.c` | a seed | `unlocked_rand`, `rand_k` | uniform for every range |
| Affinity of a cycle, `litmus/affi.ml` | a circular list | `compute` | classes are a partition, compatible with the far pairs |
| PreSi harness, `litmus/_instance.c`, `litmus/preSi.ml`, `litmus/_main.c` | roles, barriers, parameters, log | `init_global`, `set_role`, `choose`, `do_run` | a crew works on one iteration at a time; each is recorded once |
| PreSi table, `litmus/_hash.c` | an open addressing table | `hash_add`, `hash_adds` | counts are kept; failure only when full |

How they interact.  The command line sets the options from which `run` computes
the number of instances and places their threads.  `run` starts `n_exe` instances
(`zyva`), which share a mutex, a `pb_t` and `stop_now`.  At each run an instance
launches one thread per process of the test, either with `pthread_create` or
detached with a one place buffer, after a shuffle of the processors between two
`pb_wait`.  The threads of a test run the test loop: at each iteration they meet
in an iteration barrier (cells, sense barrier with timebase, pthread barrier, or
none), run the code of the test and leave its outcome in arrays; with
`-safer all` they then stabilise the locations with a `pb_t` and a `po_t`.  The
instance joins the threads, records the outcomes in its histogram, and `run`
joins the instances and merges the histograms.  The PreSi program replaces all of
that by threads that live as long as the program and change roles at a sense
barrier; its options are a smaller set, followed by parameters.

### 1.2 The rest (not modelled)

| Component | What it is | Why not, or when |
|---|---|---|
| litmus runtime: OS affinity (`_linux_affinity.c`), output buffers (`_litmus_io.c`), text helpers | system calls and formatting | input and output |
| litmus compiler (`skel.ml` and others as a program) | code generation | its output is what is modelled, with `topology.ml`, which makes tables for it |
| litmus driver | options, archives, remote runs | input and output |
| herd: candidate executions (`mem.ml`, `valconstraint.ml`, `partition.ml`) | search over rf and ws with constraints | planned, section 6 |
| herd: models (`innerRel.ml`, the cat interpreter, `X86TSO.ml`) | relations and fixpoints | planned, section 6 |
| herd: semantics of instructions, parsers, graphs | tables, layout | no control to check |
| gen | cycles to tests | planned, section 6 |
| tools | filters over logs | the merge of logs is planned |
| lib | parsers, containers | `innerRel.ml` and `mySet.ml` come with herd |
| cats, tests, documentation, generated and vendored files | data | the manual is quoted where a finding needs it |

Left out of the components above: the errors of pthread calls (`errexit`, which
stops the program); `start_thread`, which no generated program calls; sorting and
printing in the dump of a histogram; the list of the variables that are active in a
row of the PreSi topology (`handle_vars`); the choices of memory order and prefetch
at the top of an iteration; the text of messages and of usage.

What is hard in this code: threads that come back to a barrier before others have left
it, one word of shared state used for all the iterations, wake ups for no reason,
memories that reorder what the C text orders, buffers freed and given again while their
writer is on its way out, arrays read by threads while another permutes them, searches
at random that fail halfway and start again, flags tested by some instances after they
are set, numbers converted at the limit of their width, tables and processor lists at
their limit. The list, line by line, is under "hazards" in `PROJECT.json`.

## 2. Modules

    Barrier <- SenseBarrier <- BarrierCode
    Barrier <- PthreadBarrier <- Detached
               PthreadBarrier <- PthreadOr <- StabilizeGlobals <- TestThread
    Barrier <- TestLoop <- TestThread
    Affi, LitmusRand <- Placement <- Topology;  CmdLine, Topology <- Startup
    Outs, PresiHash <- Tables
    Zyva;  PresiHarness

`SenseBarrierProofs`, `PthreadBarrierProofs`, `StabilizeGlobalsProofs`,
`TestThreadProofs`, `DetachedProofs`, `ZyvaProofs`, `PresiProofs` and
`StartupProofs` extend their component with its theorems (section 5).
`SenseBarrierProofs` extends `BarrierCode`, and so proves both; `PresiProofs` is about
`PresiHash` and `PresiHarness`; `StartupProofs` is about `Startup`, and so about the
`CmdLine`, the `Affi` and the `Placement` that it composes.

A module `MCX` gives the constants of `X`, and `MCX.cfg` the bounds, for the
modules that are checked: `BarrierCode`, `Detached`, `TestThread`, `Zyva`,
`Tables`, `Startup` and `PresiHarness`.  The others are checked as parts of these.
The modules put their plausible errors (variants of one definition) beside the
definition they vary; no specification uses them.

* `Barrier` - what any barrier of the runtime promises: a thread returns from
  its k-th call only when all have made theirs, and does return.  `SenseBarrier`
  and `PthreadBarrier` implement it; the mapping is the identity on the history
  variables `entered` and `left`.
* `SenseBarrier` - one action per shared access of `barrier_wait`, each
  sequentially consistent.
* `BarrierCode` - the six versions as they are written, instruction by
  instruction (`ip`, registers, reservations of load linked), on a memory with
  store buffers, which are queues on x86 and keep the order of one word elsewhere,
  and with early loads (`view`).  A store that leaves its buffer is seen by all at
  once, which ppc and arm do not promise.  It extends `SenseBarrier`, whose variables become
  the memory and the history of its abstract steps, and implements it.  Each
  thread also stores its progress in a word of `data` before it calls: a thread
  that is back must find the words of the others there.  Each instruction has an
  annotation (`Notes`), from which the inductive invariant `CodeInv` is made.
* `PthreadBarrier` - one action per critical section.  A thread is out of
  `pb_wait`, asleep in `pthread_cond_wait`, or awake and in need of the mutex;
  `SpuriousWakeUp` may happen at any time.
* `Detached` extends it with the harness of detached threads.  Each call on the
  mutex or the condition of a one place buffer is a step, with the address of the
  buffer; `malloc` may give again an address that `op_free` has released.
  The threads go from the barrier into a delay loop in which all of them load
  and store one word with no lock, so that a late store may bring the word back up.
* `PthreadOr` extends it with `val`: `po_reinit` and `po_wait` are `Arrive` with
  one more assignment, as in the code, which repeats `pb_wait`.
* `StabilizeGlobals` composes `PthreadOr` with one location: the stores of a thread
  stay private to it for a while, and become visible to all one by one, in program
  order (`Drain`, external).
* `TestLoop` - the decreasing strided loop over the cells, in which each thread is
  at a rank of the order that all share; the iteration barriers `user` (a cell per
  iteration) and `user2` (N cells that are used again); the target of
  `timebase`, around the abstract `Barrier`; and `reinit` between the runs.  The
  settings (`cfg`) are chosen in the initial state.  A barrier after the code
  of the test is there when outcomes are collected in the loop (`cfg.collect`),
  as in the code, and not otherwise.
* `TestThread` - a test thread from launch to return: `TestLoop`, then
  `StabilizeGlobals` where the test is compiled with `-safer all`.
* `Zyva` - `run`, the instances and the test threads; `pb_wait` is atomic here,
  which `PthreadBarrier` justifies.
* `CmdLine` - the words of a command line are read in order; each option is an
  action on the options, with the conversions of C at scaled widths (`strtol`
  saturates, the assignment to an `int` wraps, `errno` is never cleared).
* `Affi` - `compute`, a pure function of the cycle of the test (`coms`).
* `LitmusRand` - the congruence and `rand_k`, over words of `W` bits.
* `Placement` extends both: what `run` makes of the classes that `Affi` gives, in
  mode custom, and the modes incr and random; one action per thread or class
  placed, and a shuffle that draws with `rand_k`.
* `Topology` extends `Placement` with the modes scan and topo.  The enumeration of the
  rows (`groups`) is a function of the machine; one action finds a core for a group of
  threads, one gives up an attempt (`Exit_`, with the order of the retries), one
  gives the instance its processors.  The generator makes all the rows; here a run
  makes the one it chooses, since rows are independent.
* `Startup` composes `CmdLine` and `Topology`: from the words to the number of
  instances and the processor of each thread.
* `Outs` - the tree as nested sequences of cells, and `hist_t`.
* `PresiHash` - the table, its probes and the merge of tables.
* `Tables` - both, side by side: two forms of one bag.
* `PresiHarness` - a thread follows a script, the operations of its iteration
  and the barriers between them; the data of an instance carries the number of
  the iteration that wrote it.

## 3. Runs

| Run | Instance | What it shows |
|---|---|---|
| `barrier_code` | six versions, 3 threads, 2 calls | the annotations of the instructions and no overtaking; the code implements `SenseBarrier` and `Barrier` with its liveness; stores made before are seen after |
| `aarch64_exit` | 2 threads | **violation**: a thread that leaves by the spin loop misses a store |
| `detached` | 3 threads, 2 runs of 2 iterations, delay of 3 | the inductive invariant and no overtaking under the real client of the barrier; results delivered, no use after free, all joined |
| `test_thread` | 3 threads; 2 runs of user with 9 cells and strides 1 and 2, user2 with 7 and 9 cells, timebase with 2 and 3 iterations; one run with `-safer all`, one thread may store twice | leader followed, each cell once, bounded drift, one target per iteration; the verdict of each use of the or flag, final values, no copy rewritten while compared; runs complete |
| `compact_stride` | 2 threads, user2, 8 cells, stride 2 | **violation**: the threads block |
| `timebase_no_trailing` | 3 threads, timebase, no collection (the default) | **violation**: targets differ |
| `zyva` | 2 instances, 2 threads, 2 runs; lists of 3 processors, of 4 with a repetition, of 5; a row of the scan that places one instance only | early stop, threads per processor, outcomes, return |
| `tables` | 2 histograms, 4 outcomes, 3 values; 3 entries, 4 keys, 2 instances | both are bags under addition and merge; counts; failure only when full |
| `startup` | all pairs of 102 words, all triples of those that interact; all cycles of 2 to 6 edges; custom on 2 to 8 processors; any increment on up to 8; shuffles of up to 4; rows of 2, 3 and 4 threads on up to 8 processors, 1 and 2 sockets, 2 or 4 processors per core | commands obeyed, refusals deserved; classes are a partition and no Rf is wasted; one thread per processor, failure only at exhaustion; even use; fair shuffles; rows complete, without duplicates, and followed by each instance |
| `custom_affinity_far` | 8 processors, IRIW | **violation**: far threads on one core |
| `presi_delay` | one delay between -2 and 4 | **violation**: a value past the table is accepted |
| `presi_harness` | 4 threads, 2 instances, 2 partitions, 2 runs | one crew, one iteration, each recorded once |

Why the bounds are enough.  Three threads are the least number for which one closes a
barrier, one comes back early and one is late; two threads can then lose their
reservation to the third.  Two calls let a thread spin in the second while another is
still in the first, with each value of the sense.  Most of the safety properties are
proved in section 5 without bounds.  In `detached` the buffers of the second run take
the addresses of the first, and the two iterations of a run let a thread be in the
barrier while another is still in its delay loop.  In `test_thread` a size of nine is
not a multiple of the stride of two, and the rotation of the lead comes back to each
thread; in mode user2 nine iterations use each cell in both phases, from an initial
value that depends on its index; the second run starts from what the first one left.
The or flag is used four times before the last store is visible: once where all find the
memory stable and no store was made, and more while stores travel.  In `zyva` two runs
are enough for `stop_now` to be set in one and seen in the next, at any of its tests;
the four threads are more, as many and fewer than the processors of the list.
In `startup` an `int` is -128 to 127 and a `long` -2048 to 2047, with multipliers of 10
and 100: there are numbers that fit in both, in a `long` only, in none, and numbers that
their multiplier takes out of each; random numbers have 8 bits, so that every range up
to 255 is drawn from all the seeds; two instances of four threads ask for eight
processors out of four, six or eight, so that every way to run out of them is met, and
increments go beyond the number of processors; in modes scan and topo a group may fill a
core, share it with one of another instance or not fit, so that each retry is taken.  At
most 16 threads are placed (`MaxThreads`).  `tables` has more keys than entries and two
keys that collide at the last entry.

Deadlock is checked in every run but `compact_stride`, where threads that block
are the question; a run that has come to its end stutters with an action
(`Finished` and the like) whose guard says that all is done.

Fairness.  `WF` of the actions of each thread: threads are pthreads, on
processors of their own or scheduled by the system, that keep running.  Nothing is
assumed of spurious wake ups.  `Drain` is fair because a store reaches every
processor in the end.  Two strong fairness conditions: in `BarrierCode` on a store
conditional, which an architecture must let succeed in the end although another
thread may take the reservation again and again; in `Detached` on the steps of a
thread, because a mutex that is taken and released for ever is granted in the end
to each thread that asks for it.

## 4. Findings

* `timebase_no_trailing`: in the default mode the barrier after the body of an
  iteration is commented out (`litmus/skel.ml:1725`), so a fast thread may store
  the target of the next iteration before a slow one has loaded the present one.
  The manual says that the threads agree on a target.  The outcomes stay correct;
  the synchronisation is what is lost.
* `compact_stride`: `-barrier user2` with a stride other than one makes the test
  block, since the initial cells and their phases are those of a loop by steps of
  one (`litmus/skel.ml:1460`).
* `custom_affinity_far`: `custom_affinity` passes the list of processors
  where its searches expect the map of cores (`litmus/_utils.c:385`), so that far
  threads may be placed on one core.
* `aarch64_exit`: a thread that spins leaves the barrier of AArch64 by `dmb st`
  (`litmus/_aarch64/barrier.c:58`), which does not order its later loads; the C
  version and the older assembly in the same file have a full barrier there.
  `SeesStores`, checked in `barrier_code`, is for the other versions.
* `presi_delay`: `parse_param` compares a delay with the size of its table before
  it adds `NSTEPS2` to it (`litmus/_presi.c:204`), so that delays of the upper half
  are accepted although the table has no row for them.  `Obeyed` does not speak of
  that range; `ParamsInRange` does.

Two more, without a run of their own, are exceptions that the properties of the
command line state:

* "0k" and "-1k" are refused as "overflow" (`litmus/_utils.c:496` and `508`) although
  they fit: `my_add` and `my_pow10` take a null or negative number for an overflow.
  `FatalJustified` does not claim that the refusal of such an option is deserved.
* A number without multiplier that no `int` holds is accepted and truncated
  (`litmus/_utils.c:517`).  `Obeyed` claims nothing of such a number (`Untested`), nor of
  those of the PreSi program, which tests none; a number with a multiplier that is
  accepted is obeyed in any case.

## 5. Proofs

Eight modules prove, with TLAPS, what the runs check on small instances, for every
value of the constants that the assumptions admit.  Each extends its component
(`TestThreadProofs` also instantiates `StabilizeGlobalsProofs`, as `TestThread` does
`StabilizeGlobals`).

| Module | Theorem | Property | For every |
|---|---|---|---|
| `SenseBarrierProofs`, `PthreadBarrierProofs` | `TypeCorrect`, `Invariance`, `Synchronises` | `TypeOK`, `IInv`, `NoOvertaking` | finite set of threads, number of calls |
| | `Implements` | each step is a step of `Barrier` or a stutter | |
| `SenseBarrierProofs` | `CodeInvariance`, `CodeSynchronises`, `CodePublishes` | `CodeInv`, `NoOvertaking`, `SeesStores`, of the instructions | architecture, threads, number of calls |
| | `CodeImplements`, `CodeImplementsBarrier` | each step is a step of `SenseBarrier`, of `Barrier`, or a stutter | |
| `StabilizeGlobalsProofs` | `StabilizeInvariance`, `VerdictsAgree`, `CopiesAreFinal`, `CopiesAtRest` | `SGInv`, `VerdictInv`, `StabilizedIsFinal`, `NoTornCompare` | threads, stores, uses of the or flag |
| `TestThreadProofs` | `VerdictCorrect`, `StabilizedCorrect`, `NeverTorn` | the same three, of a test thread | threads, sizes, strides, runs |
| | `TargetsAgree` | `CommonTarget` | the same, with `Trailing` |
| | `LeaderFollowed` | `FollowsLeader` | the same, with `UnitStride` |
| | `DriftsByARotation`, `DriftBounded` | `DriftBound` | the same, in states with `Rotating`; in all states, for strides of one |
| `DetachedProofs` | `DetachedInvariance`, `BuffersOutlive`, `ResultsDelivered`, `DetachedSynchronises` | `DetachedInv`, `NoUseAfterFree`, `Delivered`, `NoOvertaking` | threads, runs, iterations, addresses, delays |
| `ZyvaProofs` | `InvariantTheorem`, `TypeCorrect`, `Harmless`, `NoneLeftBehind`, `Apart`, `Alone` | `IInv`, `TypeOK`, `NoOutcomeLost`, `StopTogether`, `OwnProcessor`, and `Different` when the array is `Roomy` | instances, threads, runs, lists of processors, shuffles, rows of the scan |
| `PresiProofs` | `HashInvariance`, `TablesAreBags`, `FullIsFull`, `SumCorrect` | `HashInv`, `TableIsBag`, `FullWhenFull`, `SumIsTotal` | sizes of tables, hash functions, outcomes, instances |
| | `HarnessInvariance`, `CrewsApart`, `IterationsApart`, `TargetsShared`, `OutcomesCounted` | `IInv`, `OneCrew`, `SameIteration`, `CommonTarget`, `Counted` | threads, roles, instances, rows, runs, iterations, settings |
| `StartupProofs` | `CmdInvariance`, `OverflowJustified` | `CmdInv`, `FatalJustified` | command line, settings of the test, widths of the types |
| | `ClassesArePartition`, `RfTogether` | `Compatible`, `RfPaired` | cycle of at least two communications |
| | `PlacementInvariance`, `CustomOwnProcessor`, `FatalOnlyWhenExhausted` | `PlacementInv`, `OwnProcessor` outside of modes scan and topo, `FatalWhenExhausted` | test, command line, machine, map of cores, order of the searches |
| | `LoadInvariance`, `LoadsBalanced` | `LoadInv`, `Balanced`, for lists of processors without repetition | increment, draws, number of processors and instances |

`TableIsBag`, `FullWhenFull` and `SumIsTotal` are checked on `Tables`, whose behaviours are
those of the histograms and those of `PresiHash`, as `presi` says; the theorems are about
`PresiHash` by itself, since `Tables` reaches the recursive operators of `Outs`.

### 5.1 Assumptions

All are ASSUMEs that TLC evaluates in a run, or hypotheses written in the theorem.

* `ProcsAssumption`, `RoundsAssumption`: a finite set of threads, not empty, and a bound
  on the calls.  `ArchsAssumption`: the six versions, or some of them.
* `TestLoopAssumption`, `ThreadAssumption`: a positive number of threads, sizes and
  strides; only mode timebase has a barrier after the code of the test.
  `SGAssumption`, a hypothesis, numbers the threads from 0, as `_nxt_id` needs.
* `MaxRunAssumption`, `LoopAssumption`, `OrderAssumption`, `AddrsAssumption`: runs of
  equal length, threads launched each once, and as many addresses as threads, without
  which `malloc` would fail.
* `ZyvaAssumption`: lists of processors that are not empty, with or without
  repetition, longer or shorter than the threads; shuffles that are permutations, one at
  least for each length; rows of `cpu_scan` that bind no two threads to one processor,
  with -1 for those of the instances that do not fit (`litmus/topology.ml:238`).  That
  the generator makes such rows is what `startup` checks (`OwnProcessor` of `Placement`
  in modes scan and topo, and `ScansTopology`).
* `HashAssumption`: a table of at least one entry, any hash function.
* `WidthAssumption`: an `int` is narrower than a `long`, and its largest value is odd, as
  2^(w-1) - 1 is, so that no number with a multiplier is equal to it.  `WAssumption`: the word of
  the random numbers has an even number of bits; its last conjunct, `2 ^ (W \div 2) > 0`,
  is there because the provers know nothing of exponents that are not numerals.
* `JobsAssumption`: a test has a cycle of two edges or more, the words of its command
  line are options that `CmdLine` reads, the settings it was compiled with have the
  four that the placement reads (`avail`, `n_exe`, `aff_incr`, `aff_cpus`), the machine
  is made of whole sockets and whole cores, and the list of its processors names each
  once.
* `TopologyAssumption`, `SettingsAssumption`: a row of the PreSi topology is made of
  complete crews, one thread per role, and of idle threads.

Other hypotheses are not assumptions on the machine but on the options of the test:

* `Trailing`: in mode timebase the outcomes are collected in the loop, so that a
  barrier follows the code of the test.  `timebase_no_trailing` shows that `CommonTarget` is
  false without it.
* `UnitStride`: in mode user2 the loop goes down by one.  `compact_stride` shows that the
  threads block without it.
* `Rotating`: in N consecutive iterations each thread leads once.  It is what
  "a rotation of the lead" means in `DriftBound`.  `RotatesByOne` proves it for a stride
  of one; with a stride that shares a factor with N only some threads lead within a pass,
  and the bound is not claimed.  The run has N = 3 and strides of 1 and 2, where it holds.
* In `LoadsBalanced`, the list of "-p" has no repetition (a processor named twice is
  given twice the threads, which is what its user asks for), and the array that mode
  random shuffles is smaller than the words of `rand_k`, which otherwise has nothing to
  draw.

### 5.2 The inductive invariants

None of the properties is inductive.  What each invariant adds is the reason
why the code works.

*Barriers.*  `NoOvertaking` says nothing of the counter that decides who closes a
round.  `CountInv`: the counter is the number of threads that have not arrived in
this round, and in the sense barrier the closing thread finds all the others
spinning.  `StageInv`: where each thread stands, in terms of the round, and what the
bit it has kept tells it; a thread still inside after its round is over is late by
one round, never two, because the next round needs its arrival to close.  That is
why one bit is enough.  `Implements` follows: the step that closes a round is
enabled only with everybody arrived.

*Instructions of the sense barrier.*  `CodeInv` is a proof outline of the assembly: each
instruction of each version is annotated with what holds of a thread about to
execute it (`Notes`), and the meaning of an annotation is one conjunct per part of
the machine.  `RegisterInv`: between the load linked and the store conditional, `r1`
is `p->c` as long as the reservation is there.  `BufferInv` lists what the store
buffer may hold at each annotation; the fence between `p->c = p->n` and the flip of
the sense is why off x86 these two are never in the buffer together.
`ViewInv`: a thread inside can load only the sense it has kept or the present one,
and one that is back sees the present one.  That each program follows its
annotations is one lemma per architecture (`AnnotatedX86` and so on) that looks at every
instruction and every branch; from there on the proof has one lemma per kind of
instruction, for all the architectures.  Each instruction is then a step of
`SenseBarrier` or a stutter (`CodeStep`), which lets `CountInv` and `StageInv` be used for
the code.  `SeesStores` is the conjunct of `ViewInv` on `view[p].d`: who has seen the
new sense knows that all have arrived, and a word is drained before its thread
arrives, so that the fence at the exit finds all of them.

*Or flag and stabilisation.*  `PhaseInv`: calls alternate between `po_reinit` and
`po_wait`, so the parity of the round tells which of the two is in progress.
`ValInv`: in a round of `po_wait`, `val` is the disjunction of the bits of those that
have arrived, and after it that of all, until the last arrival of the next
`po_reinit`.  `FoundInv` ties the bits to copies that nobody has rewritten since, and
`CopyInv` the copies to the stores on their way.  When all vote 0 around the
circle of threads, all copies are equal, and one of them is the memory: hence
final values, although no thread can see that the stores of another are done.

*Detached threads.*  What a thread has still to do always ends with the four steps
of `op_set` (`EndsBySet`).  `HeapInv`: the live buffers are those of the threads that
run, one each.  `BufferInv`: the mutex of a buffer excludes `op_set` and `op_get`, and
the buffer is full from the store until `zyva` takes the value.  `zyva` frees a buffer
only after `op_get` has had the mutex with the buffer full, so after the unlock of
`op_set`, the last access of the thread.

*Test loop.*  In mode timebase, `CallsInv` gives the call of the barrier a thread is
in from its position, and `TargetInv` that the target was read in this
iteration from the store to the second barrier.  In modes user and user2, `LedInv`:
nobody has crossed an iteration that its leader has not; `UserInv` and `User2Inv` say
what each cell holds, from the ranks its thread has crossed.  That the strided passes
meet each cell once is `EachCellOnce`.

*Harness.*  `BarrierInv` is the place of each instance in the sequence of `pb_wait`;
`StopInv`: an instance that has read 0 in `stop_now` goes on, and `stop_now` stays 0
until all have read it, because it is set between two barriers.  `PlaceInv`: while
threads run the array is a rearrangement of what it was before the first run
(`Rearranged`, there is a permutation that says from where each entry comes), or the
row of the scan.  A thread is bound to what its entry still holds, so that the threads
of a processor are as many as its entries, at most (`OwnEntry`).  In mode random a list
shorter than the threads is repeated (`litmus/skel.ml:2295`): the bound is then the
number of repetitions, and one when the list suffices (`Alone`).  `SumInv`: the
instances that have been joined are over, and the sum holds their histograms.

*PreSi tables.*  `HashInv`: the entries in use have different keys and no entry
before one in the probe of its key is free (`Reachable`), counts are those of the
additions, and the sum holds what is behind the cursor (`SumInv`).  `SumTabs` is a
recursive function on sets from the community modules; that it exists and does not
depend on the order of its choices is proved in the same module.

*PreSi harness.*  The script of a thread is a suffix of the script of its role
(`Remains`), so that `Pos` is a number and `Passed(Pos)` the number of barriers of the
iteration behind it.  Each level of barriers has a number of rounds.  For `g->gb`,
`GlobalInv(R)`: a thread has passed R barriers, or R - 1 and has been let go but has
not left yet.  For `ctx->b`, `InstOf` says the same of the members of an instance,
counted over all runs.  R is even while somebody iterates and odd inside
`set_role` (`Parity`), so all the threads take their role from the same row, and a crew
is complete.  `Companions` follows: when a thread has passed a barrier of its
iteration, the others are between the same two barriers, or about to leave the last
of them, or, after the last one, done with the iteration.  `DataInv` dates what each
role wrote last, `TimeInv` the target, and `CountInv(R)` counts the outcomes by rows.
`Ordered` looks at the script: each use of the data of others has a barrier between
the writing and itself, for all combinations of the optional parts.

*Command line.*  `ErrnoInv`: `errno` is set only if an option that was read before has a
number out of range (`Blamed`), and nothing ever clears it; a parameter of the PreSi
harness may set it too, but nothing is read after it that looks at it.  It is why `FatalJustified`
speaks of the words read so far: the option at which the program says "overflow" may
be a good one.  `RefusedIsOut`: a conversion that is refused with `errno` clear has a
number that does not fit, in the width it is converted to and with its suffix, or
multiplies a null or negative number (`NotPositive`, the last note of section 4).

*Classes.*  `collect` walks the cycle backwards from the node found by `find_fr` or
`find_ws`.  `WalkInv`: after each step the classes made and the pending chain are the
threads walked over, each once (`Covers`), and a thread without a companion has no Rf
after it, or is the last of the walk (`Linked`).  The walk starts at an Fr or a Ws when
there is one, so that the last one has no Rf after it either, and a pair is always two
successive nodes of a chain of Rf.  Hence a pair of threads linked by an Fr is never a
class, except in a cycle of two threads, which is the case that `compute` splits.  The
sort keeps all this: `Only` returns each element as often as it was there (`Selection`).

*Custom placement.*  `OwnInv`: a processor is on the list of one core at one position
(`FreeOnce`), or in one place of the array of threads (`TakenOnce`), not both
(`FreeOrTaken`), and always somewhere (`NoneLost`).  It is kept only because a thread is
given a processor once, which depends on the classes: `PendingInv`, the threads still to
be placed have none, and the threads of a class not yet reached are not those of a class
that is done, by `Covers`.  The lists start apart because `inverse_procs` sends a
processor to the core that the map gives it. `ExhaustedInv` comes from the last of the
searches, `find_one_proc`, which takes any core with a free processor when none of them
suits the thread.

*Loads.*  `LoadInv` has the two modes that spread the threads.  In mode incr
(`IncrInv`) the two counters of the code, `next_cpu` and `start_scan`, have a closed
form: with `g = max_start`, the gcd of the step and of the number of processors, and
`l = Turn`, the number of steps that come back to the start, thread `s` is placed by step
`s % l` of the walk that starts at `(s \div l) % g` (`Nth`).  `WalkNext` is the step of
the code.  What makes it right is number theory: `gcd`, a recursive function, divides
both numbers and is a combination of them (`GcdIsDivisor`), so that the walks from
`0 .. g - 1` are disjoint (`PlacesApart`) and reach every processor (`PlacesReached`).
A processor then comes back after exactly `g * l` threads (`WalkApart`, `WalkReaches`).
In mode random (`ShuffleInv`) the array is always a permutation of the processors,
repeated as often as needed, because `rand_k[n]` is below `n` and an exchange keeps
permutations.  In both modes a processor is met once in each window of some length,
which bounds the difference of two loads (`EvenLoad`).

Facts that need induction (the passes of the strided loop, the circle of threads,
sums over finite sets, the first free entry of a probe, the folds of
the classes, gcd) are proved from the least
counterexample (`LeastNat`), which the provers can use, instead of the induction
theorems of the library.

### 5.3 Only model checked

* Liveness (`AllReturn`, for the instructions too, `AllJoined`, `ThreadsComplete`) and
  the liveness part of refinements: the prover does not reason on fairness.
* `Outs` and the merge of histograms: recursion over a tree.
* `ScansTopology`, and `OwnProcessor` in modes scan and topo: the enumeration of the
  rows of the topology and the retries of the allocation.
* `Obeyed`: a second reading of each command line, written with recursion.
* The uniformity of `rand_k` and `Fair`: a count over all seeds.

## 6. Plan

Theorem to prove next: `OwnProcessor` of `Placement` in modes scan and topo.

Models that are left:

1. litmus, the tables of PreSi (`inst` and `role`, from the rows of `Topology`, as the
   constants of `PresiHarness`, with `handle_vars`); the choices of memory order and
   prefetch at the top of an iteration.
2. herd, `ValConstraint`, `Partition`: constraint solving and partition
   refinement as pure algorithms against a reference definition.
3. herd, `Relations`: `innerRel.ml` (closure, acyclicity, all linearisations), and
   `Candidates`: enumeration of rf and ws in `mem.ml`, complete and without
   duplicates on small event structures.
4. herd, `TSO`: the axioms of `X86TSO.ml` against a machine with store buffers, by
   refinement, on two and three events per thread.
5. gen, `Cycle`: directions, locations and values along a cycle; the final
   condition is that of the cycle.
6. tools: the merge of logs keeps counts.

To keep the set of runs small, a new question joins the run of the component it
belongs to.

## 7. How to run

    tlc -config MCBarrierCode.cfg MCBarrierCode
    tlapm SenseBarrierProofs.tla

and likewise for the other modules `MC...` and `...Proofs` (a few minutes each);
`Aarch64Exit.cfg` goes with `MCBarrierCode`, `CompactStride.cfg` and
`TimebaseNoTrailing.cfg` with `MCTestThread`, `CustomAffinityFar.cfg` and
`PresiDelay.cfg` with `MCStartup`.
