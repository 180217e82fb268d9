-------------------------- MODULE TestThreadProofs --------------------------
(***************************************************************************)
(* A test thread agrees with the others, for every number of threads, of   *)
(* iterations and of runs: on the target of an iteration of mode timebase, *)
(* and on the final values with option "-safer all".                       *)
(***************************************************************************)
EXTENDS TestThread, FiniteSetTheorems, SequenceTheorems, TLAPS

SGP == INSTANCE StabilizeGlobalsProofs
         WITH Procs <- Ids, entered <- po_entered, left <- po_left

\* Without a barrier after the code of the test, a fast thread may store the
\* next target before a slow one has loaded this one (run TimebaseNoTrailing).
Trailing == \A c \in Configs : c.mode = "timebase" => c.collect
-----------------------------------------------------------------------------
Readings == Nat \X Nat \X Nat

LoopTypeOK ==
  /\ cfg \in Configs
  /\ run \in Nat
  /\ pos \in [Ids -> Nat]
  /\ at \in [Ids -> {"sync", "store", "enter", "wait", "load", "body", "enter2", "wait2"}]
  /\ reg \in [Ids -> Readings] /\ tb0 \in [Ids -> Readings] /\ next_tb \in Readings
  /\ entered \in [Ids -> Nat] /\ left \in [Ids -> Nat]

\* Two calls of the barrier in each iteration.
CallsOf(p) ==
  /\ at[p] \in {"sync", "store", "enter", "wait"} => left[p] = 2 * (pos[p] - 1)
  /\ at[p] \in {"load", "body", "enter2", "wait2"} => left[p] = 2 * (pos[p] - 1) + 1
  /\ entered[p] = IF at[p] \in {"wait", "wait2"} THEN left[p] + 1 ELSE left[p]
  /\ pos[p] > 0
  /\ ~In(p) => at[p] = "sync"

CallsInv ==
  /\ \A p \in Ids : CallsOf(p)
  /\ \A p, q \in Ids : left[p] <= entered[q]

\* The target is a reading made in this iteration, from the store of the first
\* thread to the second barrier.
TargetInv ==
  /\ \A p \in Ids : at[p] = "store" => reg[p][1] = run /\ reg[p][2] = pos[p]
  /\ \A p \in Ids : at[p] \in {"enter", "wait", "load", "body", "enter2"} =>
       next_tb[1] = run /\ next_tb[2] = pos[p]
  /\ \A p, q \in Ids :
       /\ at[p] \in {"wait", "load", "body", "enter2"}
       /\ at[q] \in {"body", "enter2", "wait2"}
       /\ pos[p] = pos[q]
       => tb0[q] = next_tb

LoopInv ==
  /\ LoopTypeOK
  /\ cfg.mode = "timebase" => CallsInv /\ TargetInv /\ CommonTarget
-----------------------------------------------------------------------------
LEMMA Instances == N \in Nat /\ N > 0 /\ 0 \in Ids
  BY TestLoopAssumption DEF Ids

\* A turn of the loop of mode timebase with its second barrier, step by step.
Turn(p) ==
  \/ at[p] = "sync"   /\ at'[p] = "store"  /\ reg' = [reg EXCEPT ![p] = <<run, pos[p], p>>]
       /\ UNCHANGED <<pos, next_tb, tb0, entered, left>>
  \/ at[p] = "store"  /\ at'[p] = "enter"  /\ next_tb' = reg[p]
       /\ UNCHANGED <<pos, reg, tb0, entered, left>>
  \/ at[p] = "enter"  /\ at'[p] = "wait"   /\ Bar!Enter(p) /\ UNCHANGED <<pos, reg, next_tb, tb0>>
  \/ at[p] = "wait"   /\ at'[p] = "load"   /\ Bar!Leave(p) /\ UNCHANGED <<pos, reg, next_tb, tb0>>
  \/ at[p] = "load"   /\ at'[p] = "body"   /\ tb0' = [tb0 EXCEPT ![p] = next_tb]
       /\ UNCHANGED <<pos, reg, next_tb, entered, left>>
  \/ at[p] = "body"   /\ at'[p] = "enter2" /\ UNCHANGED <<pos, reg, next_tb, tb0, entered, left>>
  \/ at[p] = "enter2" /\ at'[p] = "wait2"  /\ Bar!Enter(p) /\ UNCHANGED <<pos, reg, next_tb, tb0>>
  \/ at[p] = "wait2"  /\ at'[p] = "sync"   /\ Bar!Leave(p) /\ pos' = [pos EXCEPT ![p] = @ + 1]
       /\ UNCHANGED <<reg, next_tb, tb0>>

LEMMA Turns ==
  ASSUME Trailing, LoopTypeOK, cfg.mode = "timebase", NEW p \in Ids, thread(p)
  PROVE  /\ In(p) /\ Turn(p) /\ UNCHANGED <<cfg, run>>
         /\ \A q \in Ids \ {p} : at'[q] = at[q] /\ pos'[q] = pos[q]
<1>1. cfg.collect
  BY DEF Trailing, LoopTypeOK
<1>2. CASE Cross(p)
  BY <1>2 DEF Cross
<1>3. CASE ReadTimebase(p)
  BY <1>3 DEF ReadTimebase, Step, LoopTypeOK, Turn, bar
<1>4. CASE Synchronise(p)
  BY <1>4 DEF Synchronise, Step, LoopTypeOK, Turn, bar
<1>5. CASE Body(p)
  <2>1. pos' = pos
    BY <1>1, <1>5 DEF Body, LoopTypeOK
  <2> QED
    BY <1>1, <1>5, <2>1 DEF Body, Step, LoopTypeOK, Turn, tb, bar
<1>6. CASE Collect(p)
  BY <1>6 DEF Collect, Step, LoopTypeOK, Turn
<1> QED
  BY <1>2, <1>3, <1>4, <1>5, <1>6 DEF thread

\* The types hold in all the modes.
LEMMA StepType ==
  ASSUME LoopTypeOK, (\E p \in Ids : thread(p)) \/ Reinit
  PROVE  LoopTypeOK'
<1> USE Instances
<1>1. ASSUME Reinit PROVE LoopTypeOK'
  BY <1>1 DEF Reinit, LoopTypeOK
<1>2. ASSUME NEW p \in Ids, Cross(p) PROVE LoopTypeOK'
  BY <1>2 DEF Cross, Step, LoopTypeOK, tb, bar
<1>3. ASSUME NEW p \in Ids, ReadTimebase(p) PROVE LoopTypeOK'
  <2>1. p \in Nat
    BY DEF Ids
  <2>2. <<run, pos[p], p>> \in Readings
    BY <2>1 DEF LoopTypeOK, Readings
  <2> QED
    BY <1>3, <2>2 DEF ReadTimebase, Step, LoopTypeOK, bar
<1>4. ASSUME NEW p \in Ids, Bar!Enter(p) \/ Bar!Leave(p)
      PROVE  entered' \in [Ids -> Nat] /\ left' \in [Ids -> Nat]
  BY <1>4 DEF Bar!Enter, Bar!Leave, LoopTypeOK
<1>5. ASSUME NEW p \in Ids, Synchronise(p) PROVE LoopTypeOK'
  <2>1. entered' \in [Ids -> Nat] /\ left' \in [Ids -> Nat]
    BY <1>4, <1>5 DEF Synchronise, LoopTypeOK, bar
  <2> QED
    BY <1>5, <2>1 DEF Synchronise, Step, LoopTypeOK
<1>6. ASSUME NEW p \in Ids, Body(p) PROVE LoopTypeOK'
  <2>1. pos' \in [Ids -> Nat]
    BY <1>6 DEF Body, LoopTypeOK
  <2> QED
    BY <1>6, <2>1 DEF Body, Step, LoopTypeOK, tb, bar
<1>7. ASSUME NEW p \in Ids, Collect(p) PROVE LoopTypeOK'
  <2>1. entered' \in [Ids -> Nat] /\ left' \in [Ids -> Nat]
    BY <1>4, <1>7 DEF Collect
  <2> QED
    BY <1>7, <2>1 DEF Collect, Step, LoopTypeOK
<1> QED
  BY <1>1, <1>2, <1>3, <1>5, <1>6, <1>7 DEF thread

LEMMA Positions ==
  ASSUME LoopTypeOK, CallsInv, NEW p \in Ids, NEW q \in Ids
  PROVE  /\ CallsOf(p) /\ CallsOf(q) /\ pos[p] \in Nat /\ pos[q] \in Nat
         /\ left[p] \in Nat /\ left[q] \in Nat /\ entered[p] \in Nat /\ entered[q] \in Nat
         /\ left[p] <= entered[q] /\ left[q] <= entered[p]
         /\ cfg.size \in Nat
<1>1. cfg.size \in Nat
  BY TestLoopAssumption DEF LoopTypeOK
<1> QED
  BY <1>1 DEF LoopTypeOK, CallsInv

LEMMA StepCalls ==
  ASSUME Trailing, LoopTypeOK, cfg.mode = "timebase", CallsInv, NEW p \in Ids, thread(p)
  PROVE  CallsInv'
<1>1. /\ In(p) /\ Turn(p) /\ UNCHANGED cfg
      /\ \A q \in Ids \ {p} : at'[q] = at[q] /\ pos'[q] = pos[q]
  BY Turns
<1>2. \A q \in Ids \ {p} : left'[q] = left[q] /\ entered'[q] = entered[q]
  BY <1>1 DEF Turn, Bar!Enter, Bar!Leave, LoopTypeOK
<1>3. CallsOf(p)
  BY DEF CallsInv
<1>4. \/ left'[p] = left[p] /\ entered'[p] = entered[p] /\ pos'[p] = pos[p]
           /\ <<at[p], at'[p]>> \in {<<"sync", "store">>, <<"store", "enter">>,
                                     <<"load", "body">>, <<"body", "enter2">>}
      \/ left'[p] = left[p] /\ entered'[p] = entered[p] + 1 /\ pos'[p] = pos[p]
           /\ <<at[p], at'[p]>> \in {<<"enter", "wait">>, <<"enter2", "wait2">>}
      \/ left'[p] = left[p] + 1 /\ entered'[p] = entered[p] /\ pos'[p] = pos[p]
           /\ at[p] = "wait" /\ at'[p] = "load"
           /\ \A q \in Ids : entered[q] >= entered[p]
      \/ left'[p] = left[p] + 1 /\ entered'[p] = entered[p] /\ pos'[p] = pos[p] + 1
           /\ at[p] = "wait2" /\ at'[p] = "sync"
           /\ \A q \in Ids : entered[q] >= entered[p]
  BY <1>1 DEF Turn, Bar!Enter, Bar!Leave, LoopTypeOK
<1>5. pos[p] \in Nat /\ left[p] \in Nat /\ entered[p] \in Nat /\ cfg.size \in Nat
  BY Positions
<1>6. CallsOf(p)'
  BY <1>1, <1>3, <1>4, <1>5 DEF CallsOf, In
<1>7. \A q \in Ids : CallsOf(q)'
  BY <1>1, <1>2, <1>6 DEF CallsInv, CallsOf, In
<1>8. \A q \in Ids : left'[p] <= entered'[q] /\ left'[q] <= entered'[p]
  BY <1>2, <1>3, <1>4, <1>5, Positions DEF CallsOf
<1> QED
  BY <1>2, <1>7, <1>8 DEF CallsInv

LEMMA StepTarget ==
  ASSUME Trailing, LoopInv, cfg.mode = "timebase", NEW p \in Ids, thread(p)
  PROVE  TargetInv' /\ CommonTarget'
<1>1. /\ In(p) /\ Turn(p) /\ UNCHANGED <<cfg, run>>
      /\ \A q \in Ids \ {p} : at'[q] = at[q] /\ pos'[q] = pos[q]
  BY Turns DEF LoopInv
<1>2. LoopTypeOK /\ CallsInv /\ TargetInv /\ CommonTarget
  BY DEF LoopInv
\* The step changes no reading.
<1>3. ASSUME UNCHANGED <<reg, next_tb, tb0, pos>>,
             at'[p] = "store" => at[p] = "store",
             at'[p] \in {"enter", "wait", "load", "body", "enter2"} =>
               at[p] \in {"enter", "wait", "load", "body", "enter2"},
             at'[p] \in {"body", "enter2", "wait2"} => at[p] \in {"body", "enter2", "wait2"},
             \A q \in Ids : /\ at'[p] = "wait" /\ pos[p] = pos[q]
                            => at[q] \notin {"body", "enter2", "wait2"}
      PROVE  TargetInv' /\ CommonTarget'
  <2>1. (\A q \in Ids : at[q] = "store" => reg[q][1] = run /\ reg[q][2] = pos[q])'
    BY <1>1, <1>2, <1>3 DEF TargetInv
  <2>2. (\A q \in Ids : at[q] \in {"enter", "wait", "load", "body", "enter2"} =>
           next_tb[1] = run /\ next_tb[2] = pos[q])'
    BY <1>1, <1>2, <1>3 DEF TargetInv
  <2>3. ASSUME NEW x \in Ids, NEW y \in Ids,
               at'[x] \in {"wait", "load", "body", "enter2"},
               at'[y] \in {"body", "enter2", "wait2"}, pos[x] = pos[y]
        PROVE  tb0[y] = next_tb
    <3>1. at[y] \in {"body", "enter2", "wait2"}
      BY <1>1, <1>3, <2>3
    <3>2. CASE x = p /\ at'[p] = "wait"
      BY <1>3, <2>3, <3>1, <3>2
    <3>3. CASE ~(x = p /\ at'[p] = "wait")
      <4>1. at[x] \in {"wait", "load", "body", "enter2"}
        BY <1>1, <1>3, <2>3, <3>3 DEF Turn
      <4> QED
        BY <1>2, <2>3, <3>1, <4>1 DEF TargetInv
    <3> QED
      BY <3>2, <3>3
  <2>4. TargetInv'
    BY <1>3, <2>1, <2>2, <2>3 DEF TargetInv
  <2>5. CommonTarget'
    BY <1>1, <1>2, <1>3 DEF CommonTarget
  <2> QED
    BY <2>4, <2>5
<1>4. CASE at[p] = "sync"
  <2>1. /\ at'[p] = "store" /\ UNCHANGED <<pos, next_tb, tb0>>
        /\ reg'[p] = <<run, pos[p], p>> /\ \A q \in Ids \ {p} : reg'[q] = reg[q]
    BY <1>1, <1>2, <1>4 DEF Turn, LoopTypeOK
  <2>2. (\A q \in Ids : at[q] = "store" => reg[q][1] = run /\ reg[q][2] = pos[q])'
    BY <1>1, <1>2, <2>1 DEF TargetInv
  <2> QED
    BY <1>1, <1>2, <2>1, <2>2 DEF TargetInv, CommonTarget
\* Whoever stores the target of an iteration finds nobody that has loaded it, or
\* that still has to load the one of another iteration.
<1>5. CASE at[p] = "store"
  <2>1. at'[p] = "enter" /\ next_tb' = reg[p] /\ UNCHANGED <<pos, reg, tb0>>
    BY <1>1, <1>5 DEF Turn
  <2>2. left[p] = 2 * (pos[p] - 1) /\ entered[p] = left[p]
    BY <1>2, <1>5, Positions DEF CallsOf
  <2>3. ASSUME NEW q \in Ids, at'[q] \in {"enter", "wait", "load", "body", "enter2"}
        PROVE  pos[q] = pos[p]
    <3>1. CASE q # p
      BY <1>1, <1>2, <2>2, <2>3, <3>1, Positions DEF CallsOf
    <3> QED
      BY <3>1
  <2>4. ASSUME NEW x \in Ids, NEW y \in Ids,
               at'[x] \in {"wait", "load", "body", "enter2"},
               at'[y] \in {"body", "enter2", "wait2"}, pos[x] = pos[y]
        PROVE  FALSE
    <3>1. at[x] = at'[x] /\ at[y] = at'[y]
      BY <1>1, <2>1, <2>4
    <3>2. left[y] = 2 * (pos[y] - 1) + 1 /\ left[y] <= entered[p]
      BY <1>2, <2>4, <3>1, Positions DEF CallsOf
    <3>3. entered[x] = 2 * (pos[x] - 1) + 1 /\ left[p] <= entered[x]
      BY <1>2, <2>4, <3>1, Positions DEF CallsOf
    <3>4. pos[x] \in Nat /\ pos[p] \in Nat
      BY <1>2 DEF LoopTypeOK
    <3> QED
      BY <2>2, <2>4, <3>2, <3>3, <3>4
  <2>5. TargetInv'
    BY <1>1, <1>2, <1>5, <2>1, <2>3, <2>4 DEF TargetInv
  <2>6. CommonTarget'
    BY <1>1, <1>2, <2>1 DEF CommonTarget
  <2> QED
    BY <2>5, <2>6
<1>6. CASE at[p] = "enter"
  <2>1. at'[p] = "wait" /\ UNCHANGED <<pos, reg, next_tb, tb0>>
    BY <1>1, <1>6 DEF Turn
  <2>2. ASSUME NEW q \in Ids, pos[p] = pos[q], at[q] \in {"body", "enter2", "wait2"}
        PROVE  FALSE
    BY <1>2, <1>6, <2>2, Positions DEF CallsOf
  <2> QED
    BY <1>3, <1>6, <2>1, <2>2
<1>7. CASE at[p] = "load"
  <2>1. /\ at'[p] = "body" /\ UNCHANGED <<pos, reg, next_tb>>
        /\ tb0'[p] = next_tb /\ \A q \in Ids \ {p} : tb0'[q] = tb0[q]
    BY <1>1, <1>2, <1>7 DEF Turn, LoopTypeOK
  <2>2. next_tb[1] = run /\ next_tb[2] = pos[p]
    BY <1>2, <1>7 DEF TargetInv
  <2>3. \A q \in Ids : /\ at[q] \in {"body", "enter2", "wait2"} /\ pos[p] = pos[q]
                       => tb0[q] = next_tb
    BY <1>2, <1>7 DEF TargetInv
  <2>4. (\A x, y \in Ids :
           /\ at[x] \in {"wait", "load", "body", "enter2"}
           /\ at[y] \in {"body", "enter2", "wait2"}
           /\ pos[x] = pos[y]
           => tb0[y] = next_tb)'
    <3> SUFFICES ASSUME NEW x \in Ids, NEW y \in Ids,
                        at'[x] \in {"wait", "load", "body", "enter2"},
                        at'[y] \in {"body", "enter2", "wait2"}, pos[x] = pos[y]
                 PROVE  tb0'[y] = next_tb
      BY <2>1
    <3>1. at[x] \in {"wait", "load", "body", "enter2"}
      BY <1>1, <1>7
    <3> QED
      BY <1>1, <1>2, <2>1, <3>1 DEF TargetInv
  <2>5. TargetInv'
    BY <1>1, <1>2, <1>7, <2>1, <2>4 DEF TargetInv
  <2>6. CommonTarget'
    BY <1>1, <1>2, <2>1, <2>2, <2>3 DEF CommonTarget
  <2> QED
    BY <2>5, <2>6
<1>8. CASE at[p] = "wait2"
  <2>1. at'[p] = "sync" /\ UNCHANGED <<reg, next_tb, tb0>>
    BY <1>1, <1>8 DEF Turn
  <2> QED
    BY <1>1, <1>2, <2>1 DEF TargetInv, CommonTarget
<1>9. CASE at[p] \in {"wait", "body", "enter2"}
  <2>1. /\ UNCHANGED <<pos, reg, next_tb, tb0>>
        /\ <<at[p], at'[p]>> \in {<<"wait", "load">>, <<"body", "enter2">>, <<"enter2", "wait2">>}
    BY <1>1, <1>9 DEF Turn
  <2> QED
    BY <1>3, <2>1
<1> QED
  BY <1>1, <1>4, <1>5, <1>6, <1>7, <1>8, <1>9 DEF Turn

\* reinit, when the test threads have been joined.
LEMMA StepReinit ==
  ASSUME LoopInv, Reinit
  PROVE  LoopInv'
<1> USE Instances
<1>1. LoopTypeOK'
  BY StepType DEF LoopInv
<1>2. ASSUME cfg.mode = "timebase" PROVE CallsInv' /\ TargetInv' /\ CommonTarget'
  <2>1. \A p \in Ids : at[p] = "sync"
    BY <1>2 DEF LoopInv, Reinit, Joined, CallsInv, CallsOf
  <2>2. UNCHANGED <<at, cfg>> /\ \A p \in Ids : pos'[p] = 1 /\ entered'[p] = 0 /\ left'[p] = 0
    BY DEF Reinit
  <2>3. cfg.size \in Nat /\ cfg.size > 0
    BY TestLoopAssumption DEF LoopInv, LoopTypeOK
  <2>4. CallsInv'
    BY <2>1, <2>2, <2>3 DEF CallsInv, CallsOf, In
  <2> QED
    BY <2>1, <2>2, <2>4 DEF TargetInv, CommonTarget
<1> QED
  BY <1>1, <1>2 DEF LoopInv, Reinit
-----------------------------------------------------------------------------
LEMMA InitLoopInv == Init => LoopInv
<1> SUFFICES ASSUME Init PROVE LoopInv
  OBVIOUS
<1> USE Instances
<1>1. LoopTypeOK
  BY DEF Init, Bar!Init, LoopTypeOK, NoReading, Readings
<1>2. cfg.size \in Nat /\ cfg.size > 0
  BY <1>1, TestLoopAssumption DEF LoopTypeOK
<1>3. CallsInv
  BY <1>2 DEF Init, Bar!Init, CallsInv, CallsOf, In
<1>4. TargetInv /\ CommonTarget
  BY DEF Init, TargetInv, CommonTarget
<1> QED
  BY <1>1, <1>3, <1>4 DEF LoopInv

LEMMA StepLoopInv == Trailing /\ LoopInv /\ [ThreadNext]_threadVars => LoopInv'
<1> SUFFICES ASSUME Trailing, LoopInv, [ThreadNext]_threadVars PROVE LoopInv'
  OBVIOUS
<1>1. ASSUME NEW p \in Ids, thread(p) PROVE LoopInv'
  <2>1. LoopTypeOK'
    BY <1>1, StepType DEF LoopInv
  <2>2. cfg' = cfg
    BY <1>1 DEF thread, Cross, ReadTimebase, Synchronise, Body, Collect
  <2> QED
    BY <1>1, <2>1, <2>2, StepCalls, StepTarget DEF LoopInv
<1>2. ASSUME UNCHANGED vars PROVE LoopInv'
  BY <1>2 DEF vars, tb, bar, LoopInv, LoopTypeOK, CallsInv, CallsOf, In, TargetInv, CommonTarget
<1> QED
  BY <1>1, <1>2, StepReinit
     DEF ThreadNext, loop, stabilize, wake, spurious, drain, next_run, ThreadFinished, threadVars

\* The test threads that are in an iteration agree on a target that was read for
\* it, in mode timebase with the outcomes collected in the loop.
THEOREM TargetsAgree == Trailing => (ThreadSpec => []CommonTarget)
<1> SUFFICES ASSUME Trailing PROVE ThreadSpec => []CommonTarget
  OBVIOUS
<1>1. ThreadInit => LoopInv
  BY InitLoopInv DEF ThreadInit
<1>2. LoopInv /\ [ThreadNext]_threadVars => LoopInv'
  BY StepLoopInv
<1>3. LoopInv => CommonTarget
  BY DEF LoopInv, CommonTarget
<1> QED
  BY <1>1, <1>2, <1>3, PTL DEF ThreadSpec
-----------------------------------------------------------------------------
(* The stabilisation of final values, by StabilizeGlobalsProofs.            *)

\* The threads of a test are what that module assumes of its threads.
LEMMA Threads == SGP!ProcsAssumption /\ SGP!RoundsAssumption /\ SGP!SGAssumption
<1>1. IsFiniteSet(Ids) /\ Cardinality(Ids) = N
  <2>1. N \in Nat /\ N > 0
    BY Instances
  <2>2. /\ IsFiniteSet(0 .. N - 1)
        /\ Cardinality(0 .. N - 1) = IF 0 > N - 1 THEN 0 ELSE (N - 1) - 0 + 1
    BY <2>1, FS_Interval
  <2> QED
    BY <2>1, <2>2 DEF Ids
<1>2. SGP!IsFiniteSet(Ids)
  BY <1>1 DEF IsFiniteSet, SGP!IsFiniteSet
<1>3. SGP!Cardinality(Ids) = Cardinality(Ids)
  BY DEF Cardinality, SGP!Cardinality
<1>4. SGP!nprocs = N
  BY <1>1, <1>3 DEF SGP!nprocs
<1>5. Ids # {}
  BY Instances
<1> QED
  BY <1>2, <1>4, <1>5, ThreadAssumption
     DEF Ids, SGP!ProcsAssumption, SGP!RoundsAssumption, SGP!SGAssumption

LEMMA SameState == SG!nprocs = SGP!nprocs
<1>1. SG!Cardinality(Ids) = SGP!Cardinality(Ids)
  BY DEF SG!Cardinality, SGP!Cardinality
<1> QED
  BY <1>1 DEF SG!nprocs, SGP!nprocs

LEMMA SameInit == SG!SGInit => SGP!SGInit
  BY SameState
     DEF SG!SGInit, SG!OrInit, SG!Init, SG!pb_create, SG!po_create,
         SGP!SGInit, SGP!OrInit, SGP!Init, SGP!pb_create, SGP!po_create

LEMMA SameFlag ==
  ASSUME NEW p \in Ids
  PROVE  /\ SG!Arrive(p) => SGP!Arrive(p)
         /\ SG!Wake(p) => SGP!Wake(p)
         /\ SG!SpuriousWakeUp(p) => SGP!SpuriousWakeUp(p)
         /\ SG!Last <=> SGP!Last
<1>1. SG!Last <=> SGP!Last
  BY DEF SG!Last, SGP!Last
<1>2. SG!Arrive(p) => SGP!Arrive(p)
  BY <1>1, SameState
     DEF SG!Arrive, SG!Close, SG!Wait, SG!Leave, SG!Sleep, SG!Broadcast,
         SGP!Arrive, SGP!Close, SGP!Wait, SGP!Leave, SGP!Sleep, SGP!Broadcast
<1>3. SG!Wake(p) => SGP!Wake(p)
  BY DEF SG!Wake, SG!Leave, SG!Sleep, SGP!Wake, SGP!Leave, SGP!Sleep
<1>4. SG!SpuriousWakeUp(p) => SGP!SpuriousWakeUp(p)
  BY DEF SG!SpuriousWakeUp, SG!hist, SGP!SpuriousWakeUp, SGP!hist
<1> QED
  BY <1>1, <1>2, <1>3, <1>4

LEMMA SameSteps ==
  ASSUME NEW p \in Ids
  PROVE  /\ SG!stabilize_globals(p) => SGP!stabilize_globals(p)
         /\ SG!InOrFlag(p) => SGP!InOrFlag(p)
         /\ SG!Spurious(p) => SGP!Spurious(p)
         /\ SG!Drain(p) => SGP!Drain(p)
<1> USE DEF SG!At, SGP!At, SG!Goto, SGP!Goto, SG!OrFlagUnchanged, SGP!OrFlagUnchanged,
            SG!orVars, SGP!orVars, SG!vars, SGP!vars, SG!code, SGP!code, SG!hist, SGP!hist,
            SG!sg, SGP!sg
<1>1. ASSUME SG!FstArrive(p) PROVE SGP!FstArrive(p)
  BY <1>1 DEF SG!FstArrive, SGP!FstArrive
<1>2. ASSUME SG!FstLeave(p) PROVE SGP!FstLeave(p)
  BY <1>2 DEF SG!FstLeave, SGP!FstLeave
<1>3. ASSUME SG!Copy(p) PROVE SGP!Copy(p)
  BY <1>3 DEF SG!Copy, SGP!Copy, SG!View, SGP!View
<1>4. ASSUME SG!Reinit(p) PROVE SGP!Reinit(p)
  BY <1>4, SameFlag DEF SG!Reinit, SGP!Reinit, SG!po_reinit, SGP!po_reinit
<1>5. ASSUME SG!Compare(p) PROVE SGP!Compare(p)
  <2>1. SG!_nxt_id(p) = SGP!_nxt_id(p)
    BY SameState DEF SG!_nxt_id, SGP!_nxt_id
  <2> QED
    BY <1>5, <2>1 DEF SG!Compare, SGP!Compare
<1>6. ASSUME SG!Vote(p) PROVE SGP!Vote(p)
  BY <1>6, SameFlag DEF SG!Vote, SGP!Vote, SG!po_wait, SGP!po_wait, SG!Or, SGP!Or
<1>7. ASSUME SG!Decide(p) PROVE SGP!Decide(p)
  BY <1>7 DEF SG!Decide, SGP!Decide
<1>8. ASSUME SG!InOrFlag(p) PROVE SGP!InOrFlag(p)
  BY <1>8, SameFlag DEF SG!InOrFlag, SGP!InOrFlag, SG!OrWake, SGP!OrWake, SG!Odd, SGP!Odd
<1>9. ASSUME SG!Spurious(p) PROVE SGP!Spurious(p)
  BY <1>9, SameFlag DEF SG!Spurious, SGP!Spurious, SG!OrSpuriousWakeUp, SGP!OrSpuriousWakeUp
<1>10. ASSUME SG!Drain(p) PROVE SGP!Drain(p)
  BY <1>10 DEF SG!Drain, SGP!Drain
<1> QED
  BY <1>1, <1>2, <1>3, <1>4, <1>5, <1>6, <1>7, <1>8, <1>9, <1>10
     DEF SG!stabilize_globals, SGP!stabilize_globals

\* The loop of the test leaves the stabilisation alone, and the threads take its
\* steps only.
LEMMA ThreadsStabilize == ThreadSpec => SGP!SGSpec
<1>1. ThreadInit => SGP!SGInit
  BY SameInit DEF ThreadInit
<1>2. [ThreadNext]_threadVars => [SGP!SGNext]_(SGP!sgVars)
  <2> SUFFICES ASSUME [ThreadNext]_threadVars PROVE [SGP!SGNext]_(SGP!sgVars)
    OBVIOUS
  <2>1. ASSUME UNCHANGED sgVars PROVE UNCHANGED SGP!sgVars
    BY <2>1 DEF sgVars, SGP!sgVars, SGP!orVars, SGP!vars, SGP!code, SGP!hist, SGP!sg
  <2>2. ASSUME NEW p \in Ids, stabilize(p) \/ wake(p) \/ spurious(p) \/ drain(p)
        PROVE  SGP!SGNext
    BY <2>2, SameSteps DEF stabilize, wake, spurious, drain, SGP!SGNext
  <2> QED
    BY <2>1, <2>2 DEF ThreadNext, loop, next_run, ThreadFinished, threadVars
<1> QED
  BY <1>1, <1>2, PTL DEF ThreadSpec, SGP!SGSpec

\* po_wait gives each test thread the disjunction of the bits of its own round.
THEOREM VerdictCorrect == ThreadSpec => []VerdictInv
<1>1. SGP!SGSpec => []SGP!VerdictInv
  BY Threads, SGP!VerdictsAgree
<1>2. SGP!VerdictInv => VerdictInv
  BY DEF VerdictInv, SG!VerdictInv, SGP!VerdictInv, SG!Odd, SGP!Odd
<1> QED
  BY ThreadsStabilize, <1>1, <1>2, PTL

\* The check "global x unstabilized" of zyva never fires.
THEOREM StabilizedCorrect == ThreadSpec => []StabilizedIsFinal
<1>1. SGP!SGSpec => []SGP!StabilizedIsFinal
  BY Threads, SGP!CopiesAreFinal
<1>2. SGP!StabilizedIsFinal => StabilizedIsFinal
  BY DEF StabilizedIsFinal, SG!StabilizedIsFinal, SGP!StabilizedIsFinal, SG!Joined, SGP!Joined
<1> QED
  BY ThreadsStabilize, <1>1, <1>2, PTL

\* No test thread rewrites its copy while the copies are being compared.
THEOREM NeverTorn == ThreadSpec => NoTornCompare
<1>1. SGP!SGSpec => SGP!NoTornCompare
  BY Threads, SGP!CopiesAtRest
<1>2. [\A p \in Ids : cpy'[p] # cpy[p] => \A q \in Ids : ~SGP!At(q, "compare")]_(SGP!sgVars)
      => [\A p \in Ids : cpy'[p] # cpy[p] => \A q \in Ids : ~SG!At(q, "compare")]_(SG!sgVars)
  BY DEF SG!At, SGP!At, SG!sgVars, SGP!sgVars, SG!orVars, SGP!orVars, SG!vars, SGP!vars,
         SG!code, SGP!code, SG!hist, SGP!hist, SG!sg, SGP!sg
<1> QED
  BY ThreadsStabilize, <1>1, <1>2, PTL DEF NoTornCompare, SG!NoTornCompare, SGP!NoTornCompare
-----------------------------------------------------------------------------
(* The loop of modes user and user2.                                       *)

\* Division by a positive number: quotient and remainder are unique.
LEMMA Division ==
  ASSUME NEW d \in Nat, d > 0, NEW x \in Int
  PROVE  /\ x \div d \in Int /\ x % d \in 0 .. d - 1
         /\ x = d * (x \div d) + (x % d)
         /\ \A q \in Int, r \in 0 .. d - 1 : x = d * q + r => q = x \div d /\ r = x % d
<1>1. x \div d \in Int /\ x % d \in 0 .. d - 1 /\ x = d * (x \div d) + (x % d)
  OBVIOUS
<1>2. ASSUME NEW q \in Int, NEW r \in 0 .. d - 1, NEW p \in Int, NEW s \in 0 .. d - 1,
             d * q + r = d * p + s
      PROVE  q = p /\ r = s
  BY <1>2
<1> QED
  BY <1>1, <1>2

\* Two numbers less than N apart have different remainders; adding N keeps the
\* remainder, and changes the half of 2*N in which a number falls.
LEMMA Residues ==
  ASSUME NEW x \in Int, NEW y \in Int
  PROVE  /\ x % N \in Ids
         /\ x % N = y % N /\ x < y => x + N <= y
         /\ (x + N) % N = x % N
         /\ Free(x) \in {0, 1} /\ Free(x + N) = 1 - Free(x)
<1>0. N \in Nat /\ N > 0
  BY TestLoopAssumption
<1>1. /\ x \div N \in Int /\ x % N \in 0 .. N - 1 /\ x = N * (x \div N) + (x % N)
      /\ y \div N \in Int /\ y % N \in 0 .. N - 1 /\ y = N * (y \div N) + (y % N)
  BY <1>0, Division
<1>2. x % N \in Ids
  BY <1>1 DEF Ids
<1>3. ASSUME x % N = y % N, x < y PROVE x + N <= y
  <2> DEFINE a == x \div N
             b == y \div N
  <2>1. a \in Int /\ b \in Int /\ N * a < N * b /\ y - x = N * b - N * a
    BY <1>0, <1>1, <1>3
  <2> HIDE DEF a, b
  <2>2. a < b
    BY <1>0, <2>1
  <2>3. N * b >= N * (a + 1)
    BY <1>0, <2>1, <2>2
  <2> QED
    BY <1>0, <2>1, <2>3
<1>4. (x + N) % N = x % N
  <2>1. x + N = N * ((x \div N) + 1) + (x % N)
    BY <1>0, <1>1
  <2> DEFINE z == x + N
             q == (x \div N) + 1
             r == x % N
  <2>2. z \in Int /\ q \in Int /\ r \in 0 .. N - 1 /\ z = N * q + r
    BY <1>0, <1>1, <2>1
  <2> HIDE DEF z, q, r
  <2>3. r = z % N
    BY <1>0, <2>2, Division
  <2> QED
    BY <2>3 DEF z, r
<1>5. (x % (2 * N) < N) <=> ~((x + N) % (2 * N) < N)
  BY <1>0
<1> QED
  BY <1>2, <1>3, <1>4, <1>5 DEF Free

-----------------------------------------------------------------------------
Size   == cfg.size
Stride == cfg.stride

\* The pass, from 1, in which a cell is met.
PassOf(c) == Stride - ((Size - 1 - c) % Stride)

\* A sequence meets each cell of the passes of S once, and no other.
Meets(seq, S) ==
  /\ seq \in Seq(Cells)
  /\ \A c \in Cells : PassOf(c) \in S <=> \E i \in 1 .. Len(seq) : seq[i] = c
  /\ \A i, j \in 1 .. Len(seq) : seq[i] = seq[j] => i = j

LEMMA PassMeets ==
  ASSUME cfg \in Configs, NEW j \in 1 .. Stride
  PROVE  Meets(InnerLoop(j), {Stride + 1 - j})
<1> DEFINE s == Size
           d == Stride
<1>1. /\ s \in Nat /\ s > 0 /\ d \in Nat /\ d > 0 /\ j \in 1 .. d
      /\ Cells = 0 .. s - 1
  BY TestLoopAssumption DEF Size, Stride, Cells
<1>2. InnerLoop(j) = IF j > s THEN <<>>
                     ELSE [k \in 1 .. (s - j) \div d + 1 |-> s - j - (k - 1) * d]
  BY DEF InnerLoop, Size, Stride
<1> HIDE DEF s, d
<1>3. ASSUME NEW c \in Cells
      PROVE  /\ s - 1 - c \in Nat
             /\ (s - 1 - c) % d \in 0 .. d - 1
             /\ PassOf(c) = d + 1 - j <=> (s - 1 - c) % d = j - 1
  <2>1. s - 1 - c \in Nat
    BY <1>1
  <2>2. (s - 1 - c) % d \in 0 .. d - 1
    BY <1>1, <2>1, Division
  <2>3. PassOf(c) = d - ((s - 1 - c) % d)
    BY DEF PassOf, s, d
  <2> QED
    BY <1>1, <2>1, <2>2, <2>3
<1>4. CASE j > s
  <2>1. ASSUME NEW c \in Cells PROVE PassOf(c) # d + 1 - j
    <3> DEFINE x == s - 1 - c
    <3>1. x \in Nat /\ x < j - 1
      BY <1>1, <1>3, <1>4
    <3>2. x < d
      BY <1>1, <3>1
    <3>3. x = d * 0 + x /\ 0 \in Int /\ x \in 0 .. d - 1 /\ x \in Int
      BY <1>1, <3>1, <3>2
    <3> HIDE DEF x
    <3>4. x = x % d
      BY <1>1, <3>3, Division
    <3>5. x % d # j - 1
      BY <3>1, <3>4
    <3> QED
      BY <1>3, <3>5 DEF x
  <2> QED
    BY <1>2, <1>4, <2>1 DEF Meets, d
<1>5. CASE ~(j > s)
  <2> DEFINE n == (s - j) \div d + 1
             Cell(k) == s - j - (k - 1) * d
             seq == [k \in 1 .. n |-> Cell(k)]
  <2>1. s - j \in Nat /\ (s - j) \div d \in Nat /\ n \in Nat
        /\ \A q \in Nat : q * d <= s - j => q <= (s - j) \div d
        /\ ((s - j) \div d) * d <= s - j
    <3> DEFINE x == s - j
               y == x \div d
    <3>1. x \in Nat
      BY <1>1, <1>5
    <3>2. y \in Int /\ x % d \in 0 .. d - 1 /\ x = d * y + (x % d)
      BY <1>1, <3>1, Division
    <3> HIDE DEF y, x
    <3> DEFINE r == x % d
    <3>3. r \in 0 .. d - 1 /\ x = d * y + r
      BY <3>2
    <3> HIDE DEF r
    <3>4. y >= 0
      BY <1>1, <3>1, <3>2, <3>3
    <3>5. ASSUME NEW q \in Nat, q * d <= x PROVE q <= y
      BY <1>1, <3>1, <3>2, <3>3, <3>4, <3>5
    <3>6. y * d <= x
      BY <1>1, <3>1, <3>2, <3>3
    <3> QED
      BY <3>1, <3>2, <3>4, <3>5, <3>6 DEF y, x
  <2> HIDE DEF n
  <2>2. ASSUME NEW k \in 1 .. n
        PROVE  /\ Cell(k) \in Cells
               /\ s - 1 - Cell(k) = d * (k - 1) + (j - 1)
               /\ (s - 1 - Cell(k)) % d = j - 1
    <3>1. k - 1 \in Nat /\ k - 1 <= (s - j) \div d /\ (k - 1) * d \in Nat
      BY <1>1, <2>1 DEF n
    <3>2. (k - 1) * d <= ((s - j) \div d) * d
      BY <1>1, <2>1, <3>1
    <3>3. (k - 1) * d <= s - j /\ ((s - j) \div d) * d \in Nat
      BY <1>1, <2>1, <3>1, <3>2
    <3> DEFINE a == (k - 1) * d
    <3>4. a \in Nat /\ a <= s - j
      BY <3>1, <3>3
    <3>5. a = d * (k - 1)
      BY <1>1
    <3>6. Cell(k) = s - j - a
      OBVIOUS
    <3> HIDE DEF a
    <3>7. Cell(k) \in Cells /\ s - 1 - Cell(k) = a + (j - 1)
      BY <1>1, <3>4, <3>6
    <3> DEFINE x == s - 1 - Cell(k)
    <3>8. x \in Int /\ k - 1 \in Int /\ j - 1 \in 0 .. d - 1 /\ x = d * (k - 1) + (j - 1)
      BY <1>1, <3>4, <3>5, <3>7
    <3> HIDE DEF x
    <3>9. x % d = j - 1
      BY <1>1, <3>8, Division
    <3> QED
      BY <3>7, <3>8, <3>9 DEF x
  <2> HIDE DEF Cell
  <2>3. seq \in [1 .. n -> Cells]
    BY <2>2
  <2>4. seq \in Seq(Cells) /\ Len(seq) = n
    <3> HIDE DEF seq
    <3>1. seq \in Seq(Cells)
      BY <2>1, <2>3, SeqDef
    <3>2. DOMAIN seq = 1 .. n /\ DOMAIN seq = 1 .. Len(seq) /\ Len(seq) \in Nat
      BY <2>3, <3>1, LenProperties
    <3> QED
      BY <2>1, <3>1, <3>2
  <2>5. ASSUME NEW c \in Cells, PassOf(c) = d + 1 - j
        PROVE  \E i \in 1 .. n : Cell(i) = c
    <3> DEFINE x == s - 1 - c
               q == x \div d
    <3>1. x \in Nat /\ x % d = j - 1
      BY <1>3, <2>5
    <3>2. q \in Int /\ x = d * q + (x % d)
      BY <1>1, <3>1, Division
    <3>3. x = d * q + (j - 1)
      BY <3>1, <3>2
    <3> HIDE DEF q
    <3>4. c = s - j - q * d /\ x - (j - 1) = q * d
      BY <1>1, <3>1, <3>2, <3>3
    <3>5. q >= 0
      <4>1. x % d \in 0 .. d - 1
        BY <1>1, <3>1, Division
      <4> HIDE DEF x
      <4> QED
        BY <1>1, <3>1, <3>2, <3>3, <4>1
    <3>6. q * d <= s - j
      BY <1>1, <3>2, <3>4
    <3>7. q <= (s - j) \div d
      BY <2>1, <3>2, <3>5, <3>6
    <3>8. q + 1 \in 1 .. n
      BY <2>1, <3>2, <3>5, <3>7 DEF n
    <3>9. Cell(q + 1) = c
      BY <3>2, <3>4 DEF Cell
    <3> QED
      BY <3>8, <3>9
  <2>6. ASSUME NEW i \in 1 .. n, NEW k \in 1 .. n, Cell(i) = Cell(k) PROVE i = k
    <3>1. d * (i - 1) + (j - 1) = d * (k - 1) + (j - 1)
      BY <2>2, <2>6
    <3> QED
      BY <1>1, <2>1, <3>1
  <2>7. \A c \in Cells : PassOf(c) = d + 1 - j <=> \E i \in 1 .. n : Cell(i) = c
    BY <1>3, <2>2, <2>5
  <2>8. seq = InnerLoop(j)
    BY <1>2, <1>5 DEF n, Cell
  <2>9. \A i \in 1 .. n : seq[i] = Cell(i)
    OBVIOUS
  <2> HIDE DEF seq
  <2>10. /\ \A c \in Cells : PassOf(c) \in {d + 1 - j} <=> \E i \in 1 .. n : seq[i] = c
         /\ \A i, k \in 1 .. n : seq[i] = seq[k] => i = k
    BY <2>6, <2>7, <2>9
  <2>11. Meets(seq, {d + 1 - j})
    BY <2>4, <2>10 DEF Meets
  <2> QED
    BY <2>8, <2>11 DEF d
<1> QED
  BY <1>4, <1>5

\* The concatenation of two sequences that meet different passes.
LEMMA BothMeet ==
  ASSUME NEW S, NEW T, S \cap T = {}, NEW u, NEW v, Meets(u, S), Meets(v, T)
  PROVE  Meets(u \o v, S \cup T)
<1> DEFINE w == u \o v
           m == Len(u)
           n == Len(v)
<1>1. /\ u \in Seq(Cells) /\ v \in Seq(Cells) /\ m \in Nat /\ n \in Nat
      /\ \A i \in 1 .. m : u[i] \in Cells
      /\ \A i \in 1 .. n : v[i] \in Cells
  BY LenProperties DEF Meets
<1>2. /\ w \in Seq(Cells) /\ Len(w) = m + n
      /\ \A i \in 1 .. m + n : w[i] = IF i <= m THEN u[i] ELSE v[i - m]
  BY <1>1, ConcatProperties
<1>3. /\ \A c \in Cells : PassOf(c) \in S <=> \E i \in 1 .. m : u[i] = c
      /\ \A i, j \in 1 .. m : u[i] = u[j] => i = j
      /\ \A c \in Cells : PassOf(c) \in T <=> \E i \in 1 .. n : v[i] = c
      /\ \A i, j \in 1 .. n : v[i] = v[j] => i = j
  BY DEF Meets
<1> HIDE DEF w, m, n
<1>4. /\ \A i \in 1 .. m : i \in 1 .. m + n /\ w[i] = u[i]
      /\ \A i \in 1 .. n : m + i \in 1 .. m + n /\ w[m + i] = v[i]
      /\ \A i \in 1 .. m + n : i \in 1 .. m \/ (i - m \in 1 .. n /\ i = m + (i - m))
  BY <1>1, <1>2
<1>5. ASSUME NEW c \in Cells
      PROVE  PassOf(c) \in S \cup T <=> \E i \in 1 .. m + n : w[i] = c
  <2>1. ASSUME PassOf(c) \in S PROVE \E i \in 1 .. m + n : w[i] = c
    BY <1>3, <1>4, <2>1
  <2>2. ASSUME PassOf(c) \in T PROVE \E i \in 1 .. m + n : w[i] = c
    <3>1. PICK i \in 1 .. n : v[i] = c
      BY <1>3, <2>2
    <3> QED
      BY <1>4, <3>1
  <2>3. ASSUME NEW i \in 1 .. m + n, w[i] = c PROVE PassOf(c) \in S \cup T
    <3>1. CASE i \in 1 .. m
      BY <1>3, <1>4, <2>3, <3>1
    <3>2. CASE i - m \in 1 .. n /\ i = m + (i - m)
      <4>1. v[i - m] = c
        BY <1>4, <2>3, <3>2
      <4> QED
        BY <1>3, <3>2, <4>1
    <3> QED
      BY <1>4, <3>1, <3>2
  <2> QED
    BY <2>1, <2>2, <2>3
<1>6. ASSUME NEW i \in 1 .. m + n, NEW j \in 1 .. m + n, w[i] = w[j] PROVE i = j
  <2>1. \A x \in 1 .. m, y \in 1 .. n : u[x] # v[y]
    BY <1>1, <1>3
  <2>2. CASE i \in 1 .. m /\ j \in 1 .. m
    BY <1>3, <1>4, <1>6, <2>2
  <2>3. CASE i \in 1 .. m /\ j - m \in 1 .. n /\ j = m + (j - m)
    <3>1. w[i] = u[i] /\ w[j] = v[j - m]
      BY <1>4, <2>3
    <3> QED
      BY <1>6, <2>1, <2>3, <3>1
  <2>4. CASE j \in 1 .. m /\ i - m \in 1 .. n /\ i = m + (i - m)
    <3>1. w[j] = u[j] /\ w[i] = v[i - m]
      BY <1>4, <2>4
    <3> QED
      BY <1>6, <2>1, <2>4, <3>1
  <2>5. CASE /\ i - m \in 1 .. n /\ i = m + (i - m)
             /\ j - m \in 1 .. n /\ j = m + (j - m)
    <3>1. w[i] = v[i - m] /\ w[j] = v[j - m]
      BY <1>4, <2>5
    <3>2. i - m = j - m
      BY <1>3, <1>6, <2>5, <3>1
    <3> QED
      BY <2>5, <3>2
  <2> QED
    BY <1>4, <2>2, <2>3, <2>4, <2>5
<1> QED
  <2>1. Meets(w, S \cup T)
    BY <1>2, <1>5, <1>6 DEF Meets
  <2> QED
    BY <2>1 DEF w

\* The recursive function of FlattenSeq exists.
LEMMA Flattened ==
  ASSUME NEW seqs, Len(seqs) \in Nat, Len(seqs) > 0
  PROVE  \E f : /\ f = [i \in 1 .. Len(seqs) |-> IF i = 1 THEN seqs[i] ELSE f[i-1] \o seqs[i]]
                /\ FlattenSeq(seqs) = f[Len(seqs)]
<1> DEFINE n == Len(seqs)
           Def(f, m) == f = [i \in 1 .. m |-> IF i = 1 THEN seqs[i] ELSE f[i-1] \o seqs[i]]
           Bad == {m \in 1 .. n : ~\E f : Def(f, m)}
<1>1. \E f : Def(f, 1)
  <2> DEFINE f == [i \in 1 .. 1 |-> seqs[1]]
  <2>1. Def(f, 1)
    OBVIOUS
  <2> HIDE DEF Def
  <2> QED
    BY <2>1
<1>2. ASSUME NEW m \in Nat, m > 0, NEW f, Def(f, m) PROVE \E g : Def(g, m + 1)
  <2> DEFINE g == [i \in 1 .. m + 1 |-> IF i <= m THEN f[i] ELSE f[m] \o seqs[m + 1]]
             h == [i \in 1 .. m + 1 |-> IF i = 1 THEN seqs[i] ELSE g[i-1] \o seqs[i]]
  <2>1. \A i \in 1 .. m : f[i] = IF i = 1 THEN seqs[i] ELSE f[i-1] \o seqs[i]
    BY <1>2
  <2>5. \A i \in 1 .. m + 1 : g[i] = IF i <= m THEN f[i] ELSE f[m] \o seqs[m + 1]
    OBVIOUS
  <2>6. \A i \in 1 .. m + 1 : h[i] = IF i = 1 THEN seqs[i] ELSE g[i-1] \o seqs[i]
    OBVIOUS
  <2>7. g = [i \in 1 .. m + 1 |-> g[i]] /\ h = [i \in 1 .. m + 1 |-> h[i]]
    OBVIOUS
  <2> HIDE DEF Def, g, h
  <2>2. ASSUME NEW i \in 1 .. m + 1 PROVE g[i] = h[i]
    <3>1. CASE i = 1
      BY <1>2, <2>1, <2>5, <2>6, <3>1
    <3>2. CASE i # 1 /\ i <= m
      <4>1. i - 1 \in 1 .. m + 1 /\ i - 1 <= m /\ i \in 1 .. m
        BY <3>2
      <4>2. g[i] = f[i] /\ g[i - 1] = f[i - 1]
        BY <2>5, <3>2, <4>1
      <4> QED
        BY <2>1, <2>6, <3>2, <4>1, <4>2
    <3>3. CASE i = m + 1
      <4>1. m \in 1 .. m + 1 /\ m <= m /\ i - 1 = m /\ i # 1 /\ ~(i <= m)
        BY <1>2, <3>3
      <4>2. g[m] = f[m]
        BY <2>5, <4>1
      <4>3. g[i] = f[m] \o seqs[m + 1]
        BY <2>5, <4>1
      <4>4. h[i] = g[m] \o seqs[m + 1]
        BY <2>6, <3>3, <4>1
      <4> QED
        BY <4>2, <4>3, <4>4
    <3> QED
      BY <3>1, <3>2, <3>3
  <2>3. g = h
    BY <2>2, <2>7
  <2>4. Def(g, m + 1)
    BY <2>3 DEF Def, h
  <2> QED
    BY <2>4
<1> HIDE DEF Def
<1>3. \E f : Def(f, n)
  <2> SUFFICES ASSUME Bad # {} PROVE FALSE
    OBVIOUS
  <2>0. Bad \in SUBSET Nat
    OBVIOUS
  <2> HIDE DEF Bad
  <2>1. PICK k \in Bad : \A l \in Bad : k <= l
    BY <2>0, Threads, SGP!LeastNat
  <2>2. k \in 1 .. n /\ k # 1 /\ k - 1 \in 1 .. n /\ k - 1 \notin Bad
    BY <1>1, <2>1 DEF Bad
  <2>3. PICK f : Def(f, k - 1)
    BY <2>2 DEF Bad
  <2>4. \E g : Def(g, (k - 1) + 1)
    BY <1>2, <2>2, <2>3
  <2>5. (k - 1) + 1 = k
    BY <2>2
  <2> QED
    BY <2>1, <2>4, <2>5 DEF Bad
<1> DEFINE F == CHOOSE f : Def(f, n)
<1>4. Def(F, n)
  BY <1>3
<1>5. FlattenSeq(seqs) = F[n]
  BY DEF FlattenSeq, Def
<1> HIDE DEF F
<1>6. F = [i \in 1 .. n |-> IF i = 1 THEN seqs[i] ELSE F[i-1] \o seqs[i]]
  BY <1>4 DEF Def
<1> QED
  BY <1>5, <1>6

\* All the passes together meet every cell once.
LEMMA OrderMeets ==
  ASSUME cfg \in Configs
  PROVE  /\ Order \in [1 .. Size -> Cells] /\ Len(Order) = Size /\ Order \in Seq(Cells)
         /\ \A i, j \in 1 .. Size : Order[i] = Order[j] => i = j
         /\ \A c \in Cells : \E i \in 1 .. Size : Order[i] = c
<1> DEFINE d == Stride
           passes == [m \in 1 .. d |-> InnerLoop(d + 1 - m)]
<1>1. /\ d \in Nat /\ d > 0 /\ Size \in Nat /\ Size > 0 /\ Cells = 0 .. Size - 1
  BY TestLoopAssumption DEF Size, Stride, Cells
<1>2. Order = FlattenSeq(passes)
  BY DEF Order, Stride
<1> HIDE DEF d
<1>3. Len(passes) = d
  <2>1. passes \in [1 .. d -> {InnerLoop(d + 1 - m) : m \in 1 .. d}]
    OBVIOUS
  <2> HIDE DEF passes
  <2>2. passes \in Seq({InnerLoop(d + 1 - m) : m \in 1 .. d})
    BY <1>1, <2>1, SeqDef
  <2>3. DOMAIN passes = 1 .. d /\ DOMAIN passes = 1 .. Len(passes) /\ Len(passes) \in Nat
    BY <2>1, <2>2, LenProperties
  <2> QED
    BY <1>1, <2>3
<1>4. ASSUME NEW m \in 1 .. d PROVE Meets(passes[m], {m})
  <2>1. d + 1 - m \in 1 .. d /\ d + 1 - (d + 1 - m) = m
    BY <1>1
  <2>2. Meets(InnerLoop(d + 1 - m), {d + 1 - (d + 1 - m)})
    BY <2>1, PassMeets DEF d
  <2> QED
    BY <2>1, <2>2
<1> HIDE DEF passes
<1>5. PICK f : /\ f = [i \in 1 .. d |-> IF i = 1 THEN passes[i] ELSE f[i-1] \o passes[i]]
               /\ FlattenSeq(passes) = f[d]
  BY <1>1, <1>3, Flattened
<1>6. \A i \in 1 .. d : f[i] = IF i = 1 THEN passes[i] ELSE f[i-1] \o passes[i]
  BY <1>5
<1> DEFINE Bad == {m \in 1 .. d : ~Meets(f[m], 1 .. m)}
<1>7. Bad = {}
  <2> SUFFICES ASSUME Bad # {} PROVE FALSE
    OBVIOUS
  <2>1. Bad \in SUBSET Nat
    OBVIOUS
  <2> HIDE DEF Bad
  <2>2. PICK k \in Bad : \A l \in Bad : k <= l
    BY <2>1, Threads, SGP!LeastNat
  <2>3. k \in 1 .. d /\ ~Meets(f[k], 1 .. k)
    BY <2>2 DEF Bad
  <2>4. CASE k = 1
    <3>1. f[1] = passes[1] /\ 1 .. 1 = {1}
      BY <1>6, <2>3, <2>4
    <3> QED
      BY <1>4, <2>3, <2>4, <3>1
  <2>5. CASE k # 1
    <3>1. k - 1 \in 1 .. d /\ k - 1 \notin Bad
      <4>1. k \in Nat /\ k - 1 \in 1 .. d /\ ~(k <= k - 1)
        BY <1>1, <2>3, <2>5
      <4> QED
        BY <2>2, <4>1
    <3>2. Meets(f[k - 1], 1 .. k - 1)
      BY <3>1 DEF Bad
    <3>3. f[k] = f[k - 1] \o passes[k]
      BY <1>6, <2>3, <2>5
    <3>4. 1 .. k = (1 .. k - 1) \cup {k} /\ (1 .. k - 1) \cap {k} = {}
      BY <2>3
    <3>5. Meets(f[k - 1] \o passes[k], (1 .. k - 1) \cup {k})
      BY <1>4, <2>3, <3>2, <3>4, BothMeet
    <3> QED
      BY <2>3, <3>3, <3>4, <3>5
  <2> QED
    BY <2>4, <2>5
<1>8. Meets(Order, 1 .. d)
  <2>1. d \in 1 .. d
    BY <1>1
  <2>2. Meets(f[d], 1 .. d)
    BY <1>7, <2>1
  <2> QED
    BY <1>2, <1>5, <2>2
<1> DEFINE n == Len(Order)
<1>9. /\ Order \in Seq(Cells) /\ n \in Nat /\ Order \in [1 .. n -> Cells]
      /\ \A i, j \in 1 .. n : Order[i] = Order[j] => i = j
  BY <1>8, LenProperties DEF Meets
<1>10. \A c \in Cells : \E i \in 1 .. n : Order[i] = c
  <2>1. \A c \in Cells : PassOf(c) \in 1 .. d
    <3> SUFFICES ASSUME NEW c \in Cells PROVE PassOf(c) \in 1 .. d
      OBVIOUS
    <3>1. Size - 1 - c \in Int
      BY <1>1
    <3>2. (Size - 1 - c) % d \in 0 .. d - 1
      BY <1>1, <3>1, Division
    <3> QED
      BY <1>1, <3>2 DEF PassOf, d
  <2> QED
    BY <1>8, <2>1 DEF Meets
<1>11. n = Size
  <2>1. Order \in Bijection(1 .. n, Cells)
    BY <1>9, <1>10 DEF Bijection, Injection, Surjection, IsInjective
  <2>2. Cardinality(1 .. n) = n /\ IsFiniteSet(1 .. n)
    BY <1>9, FS_Interval
  <2>3. Cardinality(Cells) = Size
    BY <1>1, FS_Interval
  <2> QED
    BY <2>1, <2>2, <2>3, FS_Surjection DEF Bijection
<1> QED
  BY <1>9, <1>10, <1>11

\* The s iterations of a run are made at s different cells.
LEMMA EachCellOnce == cfg \in Configs => EveryCellOnce
<1> SUFFICES ASSUME cfg \in Configs PROVE EveryCellOnce
  OBVIOUS
<1>1. DOMAIN Order = 1 .. Size
  BY OrderMeets
<1> QED
  BY <1>1, OrderMeets DEF EveryCellOnce, ToSet, Size

\* With a stride of one the index goes down from size_of_test-1 to 0.
LEMMA Downwards ==
  ASSUME cfg \in Configs, Stride = 1
  PROVE  \A i \in 1 .. Size : Order[i] = Size - i
<1> DEFINE passes == [m \in 1 .. 1 |-> InnerLoop(2 - m)]
<1>1. Size \in Nat /\ Size > 0
  BY TestLoopAssumption DEF Size
<1>2. Order = FlattenSeq(passes)
  BY DEF Order, Stride
<1>3. passes = <<InnerLoop(1)>>
  OBVIOUS
<1> DEFINE seqs == <<InnerLoop(1)>>
<1>4. Len(seqs) = 1 /\ Len(seqs) \in Nat /\ Len(seqs) > 0 /\ seqs[1] = InnerLoop(1)
  OBVIOUS
<1> HIDE DEF seqs
<1>5. FlattenSeq(seqs) = seqs[1]
  <2>1. PICK f : /\ f = [i \in 1 .. Len(seqs) |-> IF i = 1 THEN seqs[i] ELSE f[i-1] \o seqs[i]]
                 /\ FlattenSeq(seqs) = f[Len(seqs)]
    BY <1>4, Flattened
  <2> QED
    BY <1>4, <2>1
<1>6. Order = InnerLoop(1)
  BY <1>2, <1>3, <1>4, <1>5 DEF seqs
<1>7. InnerLoop(1) = [k \in 1 .. Size |-> Size - 1 - (k - 1) * 1]
  BY <1>1 DEF InnerLoop, Size, Stride
<1> QED
  BY <1>1, <1>6, <1>7

-----------------------------------------------------------------------------
\* The thread that leads the iteration of a rank.
Leader(r) == Order[r] % N

\* Where the threads are in modes user and user2.
CellsTypeOK ==
  /\ at \in [Ids -> {"sync", "body"}]
  /\ pos \in [Ids -> 1 .. Size + 1]
  /\ \A p \in Ids : at[p] = "body" => In(p)
  /\ cfg.mode = "user" => barrier \in [Cells -> {0, 1}]
  /\ cfg.mode = "user2" => barrier \in [Ids -> {0, 1}]

\* No thread has crossed an iteration that its leader has not.
LedInv == \A p \in Ids, r \in 1 .. Size : Crossed(p, r) => Crossed(Leader(r), r)

\* A cell of mode user is set by the leader of its iteration.
UserInv ==
  \A r \in 1 .. Size : barrier[Order[r]] # 0 => Crossed(Leader(r), r)

\* A cell of mode user2 holds what the last iteration its thread has led says,
\* or, before the first one, the opposite of what this one will say.
User2Of(i, r) ==
  /\ Crossed(i, r) /\ (r + N > Size \/ ~Crossed(i, r + N)) => barrier[i] = Free(Order[r])
  /\ ~Crossed(i, r) /\ r <= N => barrier[i] = 1 - Free(Order[r])

User2Inv == \A r \in 1 .. Size : User2Of(Leader(r), r)

CellsInv ==
  cfg.mode # "timebase" =>
    /\ CellsTypeOK /\ LedInv
    /\ cfg.mode = "user" => UserInv
    /\ cfg.mode = "user2" => User2Inv
-----------------------------------------------------------------------------
LEMMA Halves ==
  ASSUME NEW q \in Int, NEW u \in 0 .. N - 1, NEW v \in 0 .. N - 1
  PROVE  (N * q + u) % (2 * N) < N <=> (N * q + v) % (2 * N) < N
<1>0. N \in Nat /\ N > 0
  BY TestLoopAssumption
<1> DEFINE h == q \div 2
           b == q % 2
<1>1. h \in Int /\ b \in 0 .. 1 /\ q = 2 * h + b
  OBVIOUS
<1> HIDE DEF h, b
<1>2. ASSUME NEW w \in 0 .. N - 1
      PROVE  (N * q + w) % (2 * N) = N * b + w
  <2> DEFINE d == 2 * N
             r == N * b + w
             x == N * q + w
  <2>1. d \in Nat /\ d > 0 /\ r \in 0 .. d - 1 /\ x \in Int
    BY <1>0, <1>1
  <2>2. x = d * h + r
    BY <1>0, <1>1
  <2> HIDE DEF d, r, x
  <2>3. r = x % d
    BY <1>1, <2>1, <2>2, Division
  <2> QED
    BY <2>3 DEF d, r, x
<1>3. N * b + u < N <=> N * b + v < N
  BY <1>0, <1>1
<1> QED
  BY <1>2, <1>3

\* reinit: "Initialisation is a bit complex, due to decreasing index".
LEMMA ClearedFacts ==
  ASSUME cfg \in Configs
  PROVE  /\ cfg.mode = "user" => Cleared \in [Cells -> {0, 1}] /\ \A c \in Cells : Cleared[c] = 0
         /\ cfg.mode = "user2" => Cleared \in [Ids -> {0, 1}]
         /\ cfg.mode = "user2" /\ Stride = 1 =>
              \A r \in 1 .. Size : r <= N => Cleared[Leader(r)] = 1 - Free(Order[r])
<1>0. N \in Nat /\ N > 0 /\ Size \in Nat /\ Size > 0
  BY TestLoopAssumption DEF Size
<1>1. ASSUME cfg.mode = "user2", Stride = 1, NEW r \in 1 .. Size, r <= N
      PROVE  Cleared[Leader(r)] = 1 - Free(Order[r])
  <2> DEFINE k == Size - r
             q == k \div N
             i == k % N
             x == Size - i - 1
  <2>1. k \in Int /\ q \in Int /\ i \in 0 .. N - 1 /\ k = N * q + i
    BY <1>0, Division
  <2>2. Order[r] = k /\ Leader(r) = i /\ i \in Ids
    BY <1>1, <2>1, Downwards DEF Leader, Ids
  <2> HIDE DEF q, i
  <2>3. x = N * q + (r - 1) /\ r - 1 \in 0 .. N - 1
    BY <1>0, <1>1, <2>1
  <2>4. x % (2 * N) < N <=> k % (2 * N) < N
    <3> DEFINE u == r - 1
    <3>1. u \in 0 .. N - 1 /\ x = N * q + u
      BY <2>3
    <3> HIDE DEF u, x, k
    <3> QED
      BY <2>1, <3>1, Halves
  <2>5. Cleared[i] = IF x % (2 * N) < N THEN 0 ELSE 1
    BY <1>1, <2>2 DEF Cleared, Size
  <2> HIDE DEF x, k
  <2> QED
    BY <2>2, <2>4, <2>5 DEF Free
<1>2. cfg.mode = "user" => Cleared \in [Cells -> {0, 1}] /\ \A c \in Cells : Cleared[c] = 0
  BY DEF Cleared
<1>3. cfg.mode = "user2" => Cleared \in [Ids -> {0, 1}]
  BY DEF Cleared
<1> QED
  BY <1>1, <1>2, <1>3

\* The rank of the previous or of the next iteration with the same leader.
LEMMA Rotation ==
  ASSUME cfg \in Configs, Stride = 1, NEW r \in 1 .. Size, NEW x \in 1 .. Size
  PROVE  /\ Leader(r) = Leader(x) /\ x < r => x + N <= r
         /\ r = x + N => Leader(r) = Leader(x) /\ Free(Order[r]) = 1 - Free(Order[x])
<1>0. N \in Nat /\ N > 0 /\ Size \in Nat
  BY TestLoopAssumption DEF Size
<1> DEFINE k == Size - r
           l == Size - x
<1>1. /\ Order[r] = k /\ Order[x] = l /\ k \in Int /\ l \in Int
      /\ Leader(r) = k % N /\ Leader(x) = l % N
  BY <1>0, Downwards DEF Leader
<1>2. x < r => k < l
  BY <1>0
<1>3. l = k + N <=> r = x + N
  BY <1>0
<1>4. k + N <= l <=> x + N <= r
  BY <1>0
<1> HIDE DEF k, l
<1>5. k % N = l % N /\ k < l => k + N <= l
  BY <1>1, Residues
<1>6. (k + N) % N = k % N /\ Free(k + N) = 1 - Free(k) /\ Free(k) \in {0, 1}
  BY <1>1, Residues
<1> QED
  BY <1>0, <1>1, <1>2, <1>3, <1>4, <1>5, <1>6

\* In mode user2 the loop goes down by one.
UnitStride == \A c \in Configs : c.mode = "user2" => c.stride = 1

LEMMA SameOrder ==
  ASSUME cfg' = cfg
  PROVE  Order' = Order /\ Size' = Size /\ Cells' = Cells /\ Cleared' = Cleared
<1>1. Order' = Order
  BY DEF Order, InnerLoop
<1>2. Cleared' = Cleared
  BY DEF Cleared, Cells
<1> QED
  BY <1>1, <1>2 DEF Size, Cells

LEMMA Ranks ==
  ASSUME cfg \in Configs, CellsTypeOK
  PROVE  /\ N \in Nat /\ N > 0 /\ Size \in Nat /\ Size > 0
         /\ \A p \in Ids : pos[p] \in Nat /\ pos[p] > 0 /\ (In(p) <=> pos[p] \in 1 .. Size)
         /\ \A r \in 1 .. Size : Order[r] \in Cells /\ Leader(r) \in Ids
<1>1. N \in Nat /\ N > 0 /\ Size \in Nat /\ Size > 0 /\ Cells = 0 .. Size - 1
  BY TestLoopAssumption DEF Size, Cells
<1>2. ASSUME NEW p \in Ids
      PROVE  pos[p] \in Nat /\ pos[p] > 0 /\ (In(p) <=> pos[p] \in 1 .. Size)
  BY <1>1 DEF CellsTypeOK, In, Size
<1>3. ASSUME NEW r \in 1 .. Size PROVE Order[r] \in Cells /\ Leader(r) \in Ids
  <2>1. Order[r] \in Cells /\ Order[r] \in Int
    BY <1>1, OrderMeets
  <2> QED
    BY <2>1, Residues DEF Leader
<1> QED
  BY <1>1, <1>2, <1>3

\* A thread crosses the barrier of its iteration.
LEMMA StepCross ==
  ASSUME UnitStride, cfg \in Configs, CellsInv, NEW p \in Ids, Cross(p)
  PROVE  CellsInv'
<1> DEFINE r == pos[p]
           k == Order[r]
<1>1. /\ cfg.mode \in {"user", "user2"} /\ cfg' = cfg
      /\ CellsTypeOK /\ LedInv
      /\ cfg.mode = "user" => UserInv
      /\ cfg.mode = "user2" => User2Inv
      /\ cfg.mode = "user2" => Stride = 1
  BY DEF Cross, CellsInv, UnitStride, Stride
<1>2. /\ r \in 1 .. Size /\ at[p] = "sync" /\ at' = [at EXCEPT ![p] = "body"] /\ pos' = pos
      /\ Index(p) = k
  BY <1>1, Ranks DEF Cross, Step, Index
<1>3. /\ N \in Nat /\ N > 0 /\ Size \in Nat /\ Size > 0
      /\ \A q \in Ids : pos[q] \in Nat /\ pos[q] > 0
      /\ \A x \in 1 .. Size : Order[x] \in Cells /\ Leader(x) \in Ids
  BY <1>1, Ranks
<1>4. ASSUME NEW q \in Ids, NEW x \in 1 .. Size
      PROVE  Crossed(q, x)' <=> Crossed(q, x) \/ (q = p /\ x = r)
  <2>1. at'[q] = IF q = p THEN "body" ELSE at[q]
    BY <1>1, <1>2 DEF CellsTypeOK
  <2> QED
    BY <1>2, <1>3, <2>1 DEF Crossed
<1>5. /\ Order' = Order /\ Size' = Size /\ Cells' = Cells
      /\ \A x \in 1 .. Size : Leader(x)' = Leader(x)
  <2>1. Order' = Order /\ Size' = Size /\ Cells' = Cells
    BY <1>1, SameOrder
  <2> QED
    BY <2>1 DEF Leader
<1> HIDE DEF r, k
<1>6. /\ Leader(r) \in Ids /\ k \in Cells /\ k = Order[r] /\ Leader(r) = k % N
      /\ ~Crossed(p, r)
      /\ \A x \in 1 .. r - 1 : Crossed(p, x)
      /\ \A x \in 1 .. Size : x > r => ~Crossed(p, x)
  <2>1. \A x \in 1 .. Size : Crossed(p, x) <=> x < r
    BY <1>2, <1>3 DEF Crossed, r
  <2> QED
    BY <1>2, <1>3, <2>1 DEF Leader, k
<1>7. ASSUME Leader(r) # p => Crossed(Leader(r), r)
      PROVE  LedInv'
  <2> SUFFICES ASSUME NEW q \in Ids, NEW x \in 1 .. Size, Crossed(q, x) \/ (q = p /\ x = r)
               PROVE  Crossed(Leader(x), x) \/ (Leader(x) = p /\ x = r)
    BY <1>3, <1>4, <1>5 DEF LedInv
  <2> QED
    BY <1>1, <1>7 DEF LedInv
<1>8. CASE cfg.mode = "user"
  <2>1. /\ barrier \in [Cells -> {0, 1}] /\ UserInv
        /\ \/ Leader(r) = p /\ barrier' = [barrier EXCEPT ![k] = 1]
           \/ Leader(r) # p /\ barrier[k] # 0 /\ barrier' = barrier
    BY <1>1, <1>2, <1>6, <1>8 DEF Cross, user_barrier_wait, Leads, CellsTypeOK
  <2>2. CellsTypeOK'
    <3>1. barrier' \in [Cells -> {0, 1}]
      BY <1>6, <2>1
    <3>2. \A q \in Ids : at'[q] = "body" => In(q)'
      BY <1>1, <1>2, Ranks DEF CellsTypeOK, In, r
    <3> QED
      BY <1>1, <1>2, <1>5, <1>8, <3>1, <3>2 DEF CellsTypeOK
  <2>3. Leader(r) # p => Crossed(Leader(r), r)
    BY <1>2, <1>6, <2>1 DEF UserInv
  <2>4. UserInv'
    <3> SUFFICES ASSUME NEW x \in 1 .. Size, barrier'[Order[x]] # 0
                 PROVE  Crossed(Leader(x), x) \/ (Leader(x) = p /\ x = r)
      BY <1>3, <1>4, <1>5 DEF UserInv
    <3>1. CASE barrier[Order[x]] # 0
      BY <2>1, <3>1 DEF UserInv
    <3>2. CASE barrier[Order[x]] = 0
      <4>1. Order[x] = k /\ Leader(r) = p
        BY <1>3, <2>1, <3>2
      <4>2. x = r
        BY <1>2, <1>6, <4>1, OrderMeets
      <4> QED
        BY <4>1, <4>2
    <3> QED
      BY <3>1, <3>2
  <2> QED
    BY <1>1, <1>7, <1>8, <2>2, <2>3, <2>4 DEF CellsInv
<1>9. CASE cfg.mode = "user2"
  <2>0. Stride = 1 /\ barrier \in [Ids -> {0, 1}] /\ User2Inv
    BY <1>1, <1>9 DEF CellsTypeOK
  <2>1. /\ \/ Leader(r) = p /\ barrier' = [barrier EXCEPT ![p] = Free(k)]
           \/ Leader(r) # p /\ barrier[Leader(r)] = Free(k) /\ barrier' = barrier
    BY <1>1, <1>2, <1>6, <1>9 DEF Cross, user2_barrier_wait
  <2>2. Free(k) \in {0, 1}
    BY <1>3, <1>6, Residues DEF Cells
  <2>3. CellsTypeOK'
    <3>1. barrier' \in [Ids -> {0, 1}]
      BY <2>0, <2>1, <2>2
    <3>2. \A q \in Ids : at'[q] = "body" => In(q)'
      BY <1>1, <1>2, Ranks DEF CellsTypeOK, In, r
    <3> QED
      BY <1>1, <1>2, <1>5, <1>9, <3>1, <3>2 DEF CellsTypeOK
  <2>4. Leader(r) # p => Crossed(Leader(r), r)
    <3> SUFFICES ASSUME Leader(r) # p, ~Crossed(Leader(r), r) PROVE FALSE
      OBVIOUS
    <3> DEFINE i == Leader(r)
    <3>1. barrier[i] = Free(k) /\ i \in Ids
      BY <1>6, <2>1
    <3>2. CASE r <= N
      <4>1. barrier[i] = 1 - Free(k)
        BY <1>2, <1>6, <2>0, <3>2 DEF User2Inv, User2Of
      <4> QED
        BY <2>2, <3>1, <4>1
    <3>3. CASE ~(r <= N)
      <4> DEFINE x == r - N
      <4>1. x \in 1 .. Size /\ r = x + N /\ x \in 1 .. r - 1 /\ ~(x + N > Size)
        BY <1>2, <1>3, <3>3
      <4> HIDE DEF x
      <4>2. Leader(x) = i /\ Free(k) = 1 - Free(Order[x])
        BY <1>2, <1>6, <2>0, <4>1, Rotation
      <4>3. Crossed(i, x)
        BY <1>1, <1>6, <4>1, <4>2 DEF LedInv
      <4>4. User2Of(i, x)
        BY <2>0, <4>1, <4>2 DEF User2Inv
      <4>5. barrier[i] = Free(Order[x])
        BY <4>1, <4>3, <4>4 DEF User2Of
      <4> QED
        BY <2>2, <3>1, <4>2, <4>5
    <3> QED
      BY <3>2, <3>3
  <2>5. User2Inv'
    <3> SUFFICES ASSUME NEW x \in 1 .. Size PROVE User2Of(Leader(x), x)'
      BY <1>5 DEF User2Inv
    <3> DEFINE i == Leader(x)
    <3>0. i \in Ids /\ i = Leader(x) /\ User2Of(i, x) /\ i' = i
      BY <1>3, <1>5, <2>0 DEF User2Inv
    <3>1. /\ Crossed(i, x)' <=> Crossed(i, x) \/ (i = p /\ x = r)
          /\ ~(x + N > Size) =>
               (Crossed(i, x + N)' <=> Crossed(i, x + N) \/ (i = p /\ x + N = r))
      <4>1. ~(x + N > Size) => x + N \in 1 .. Size
        BY <1>3
      <4> QED
        BY <1>4, <3>0, <4>1
    <3> HIDE DEF i
    <3>2. ASSUME /\ Crossed(i, x)' /\ (x + N > Size \/ ~Crossed(i, x + N)')
                   => barrier'[i] = Free(Order[x])
                 /\ ~Crossed(i, x)' /\ x <= N => barrier'[i] = 1 - Free(Order[x])
          PROVE  User2Of(Leader(x), x)'
      BY <1>5, <3>0, <3>2 DEF User2Of
    <3>3. CASE i # p
      <4>1. barrier'[i] = barrier[i]
        BY <2>0, <2>1, <3>0, <3>3
      <4> QED
        BY <3>0, <3>1, <3>2, <3>3, <4>1 DEF User2Of
    <3>4. CASE i = p /\ Leader(r) # p
      <4>1. barrier'[i] = barrier[i] /\ x # r
        BY <2>1, <3>0, <3>4
      <4>2. x + N # r
        BY <1>2, <2>0, <3>0, <3>4, Rotation
      <4> QED
        BY <3>0, <3>1, <3>2, <4>1, <4>2 DEF User2Of
    <3>5. CASE i = p /\ Leader(r) = p
      <4>1. barrier'[i] = Free(k)
        BY <2>0, <2>1, <3>0, <3>5
      <4>2. CASE x = r
        BY <1>6, <3>1, <3>2, <3>5, <4>1, <4>2
      <4>3. CASE x < r
        <5>1. x + N <= r
          BY <1>2, <2>0, <3>0, <3>5, <4>3, Rotation
        <5>2. ~(x + N > Size) /\ (Crossed(p, x + N) \/ x + N = r) /\ Crossed(p, x)
          <6>1. x + N = r \/ x + N \in 1 .. r - 1
            BY <1>2, <1>3, <5>1
          <6>2. x \in 1 .. r - 1 /\ ~(x + N > Size)
            BY <1>2, <1>3, <4>3, <5>1
          <6> QED
            BY <1>6, <6>1, <6>2
        <5> QED
          BY <3>1, <3>2, <3>5, <5>2
      <4>4. CASE x > r
        <5>1. r + N <= x
          BY <1>2, <2>0, <3>0, <3>5, <4>4, Rotation
        <5>2. ~Crossed(p, x) /\ ~(x <= N) /\ x # r
          BY <1>2, <1>3, <1>6, <4>4, <5>1
        <5> QED
          BY <3>1, <3>2, <3>5, <5>2
      <4> QED
        BY <1>2, <4>2, <4>3, <4>4
    <3> QED
      BY <3>3, <3>4, <3>5
  <2> QED
    BY <1>1, <1>7, <1>9, <2>3, <2>4, <2>5 DEF CellsInv
<1> QED
  BY <1>1, <1>8, <1>9

\* A thread goes through the code of the test, to the next iteration.
LEMMA StepBody ==
  ASSUME cfg \in Configs, cfg.mode # "timebase", CellsInv, NEW p \in Ids, Body(p)
  PROVE  CellsInv'
<1>1. ~cfg.collect /\ CellsTypeOK
  BY TestLoopAssumption DEF CellsInv
<1>2. /\ In(p) /\ at[p] = "body" /\ at' = [at EXCEPT ![p] = "sync"]
      /\ pos' = [pos EXCEPT ![p] = pos[p] + 1] /\ cfg' = cfg /\ barrier' = barrier
  <2>1. pos' = [pos EXCEPT ![p] = pos[p] + 1]
    BY <1>1 DEF Body
  <2> QED
    BY <1>1, <2>1 DEF Body, Step
<1>3. /\ N \in Nat /\ N > 0 /\ Size \in Nat /\ Size > 0
      /\ \A q \in Ids : pos[q] \in Nat /\ pos[q] > 0 /\ (In(q) <=> pos[q] \in 1 .. Size)
      /\ \A x \in 1 .. Size : Order[x] \in Cells /\ Leader(x) \in Ids
  BY <1>1, Ranks
<1>4. \A q \in Ids : /\ pos'[q] = IF q = p THEN pos[p] + 1 ELSE pos[q]
                     /\ at'[q] = IF q = p THEN "sync" ELSE at[q]
  BY <1>1, <1>2 DEF CellsTypeOK
<1>5. ASSUME NEW q \in Ids, NEW x \in 1 .. Size PROVE Crossed(q, x)' <=> Crossed(q, x)
  BY <1>2, <1>3, <1>4 DEF Crossed
<1>6. /\ Order' = Order /\ Size' = Size /\ Cells' = Cells
      /\ \A x \in 1 .. Size : Leader(x)' = Leader(x)
  <2>1. Order' = Order /\ Size' = Size /\ Cells' = Cells
    BY <1>2, SameOrder
  <2> QED
    BY <2>1 DEF Leader
<1>7. CellsTypeOK'
  <2>1. pos' \in [Ids -> 1 .. Size + 1] /\ at' \in [Ids -> {"sync", "body"}]
    BY <1>1, <1>2, <1>3 DEF CellsTypeOK
  <2>2. \A q \in Ids : at'[q] = "body" => In(q)'
    BY <1>1, <1>2, <1>4 DEF CellsTypeOK, In
  <2> QED
    BY <1>1, <1>2, <1>6, <2>1, <2>2 DEF CellsTypeOK
<1>8. LedInv'
  BY <1>2, <1>3, <1>5, <1>6 DEF LedInv, CellsInv
<1>9. ASSUME cfg.mode = "user" PROVE UserInv'
  BY <1>2, <1>3, <1>5, <1>6, <1>9 DEF UserInv, CellsInv
<1>10. ASSUME cfg.mode = "user2" PROVE User2Inv'
  <2> SUFFICES ASSUME NEW x \in 1 .. Size PROVE User2Of(Leader(x), x)'
    BY <1>6 DEF User2Inv
  <2> DEFINE i == Leader(x)
  <2>1. i \in Ids /\ i = Leader(x) /\ User2Of(i, x) /\ i' = i
    BY <1>3, <1>6, <1>10 DEF User2Inv, CellsInv
  <2> HIDE DEF i
  <2>2. ~(x + N > Size) => x + N \in 1 .. Size
    BY <1>3
  <2>3. User2Of(i, x)'
    BY <1>2, <1>5, <1>6, <2>1, <2>2 DEF User2Of
  <2> QED
    BY <1>6, <2>1, <2>3
<1> QED
  BY <1>2, <1>7, <1>8, <1>9, <1>10 DEF CellsInv

\* The first iteration of a run: reinit has prepared the cells, and nobody has
\* crossed any of them.
LEMMA FreshCells ==
  ASSUME UnitStride, cfg \in Configs, at = [p \in Ids |-> "sync"],
         pos = [p \in Ids |-> 1], barrier = Cleared
  PROVE  CellsInv
<1> SUFFICES ASSUME cfg.mode # "timebase" PROVE CellsInv
  BY DEF CellsInv
<1>1. N \in Nat /\ N > 0 /\ Size \in Nat /\ Size > 0
  BY TestLoopAssumption DEF Size
<1>2. CellsTypeOK
  BY <1>1, ClearedFacts DEF CellsTypeOK
<1>3. \A x \in 1 .. Size : Order[x] \in Cells /\ Leader(x) \in Ids
  BY <1>2, Ranks
<1>4. \A q \in Ids, x \in 1 .. Size : ~Crossed(q, x)
  BY <1>1 DEF Crossed
<1>5. ASSUME cfg.mode = "user" PROVE UserInv
  BY <1>3, <1>5, ClearedFacts DEF UserInv
<1>6. ASSUME cfg.mode = "user2" PROVE User2Inv
  <2>1. Stride = 1
    BY <1>6 DEF UnitStride, Stride
  <2> QED
    BY <1>3, <1>4, <1>6, <2>1, ClearedFacts DEF User2Inv, User2Of
<1> QED
  BY <1>2, <1>4, <1>5, <1>6 DEF CellsInv, LedInv

\* The next run, when the test threads have been joined.
LEMMA NextRunCells ==
  ASSUME UnitStride, cfg \in Configs, CellsInv, Reinit
  PROVE  CellsInv'
<1> SUFFICES ASSUME cfg.mode # "timebase" PROVE CellsInv'
  BY DEF CellsInv, Reinit
<1>1. cfg' = cfg /\ at' = at /\ pos' = [p \in Ids |-> 1] /\ barrier' = Cleared
  BY DEF Reinit
<1>2. at = [p \in Ids |-> "sync"]
  <2>1. \A p \in Ids : at[p] = "sync"
    BY DEF Reinit, Joined, CellsInv, CellsTypeOK
  <2> QED
    BY <2>1 DEF CellsInv, CellsTypeOK
<1>3. Cleared' = Cleared /\ Size' = Size /\ Order' = Order /\ Cells' = Cells
  BY <1>1, SameOrder
<1>4. /\ N \in Nat /\ N > 0 /\ Size \in Nat /\ Size > 0
      /\ \A x \in 1 .. Size : Order[x] \in Cells /\ Leader(x) \in Ids
  BY Ranks DEF CellsInv
<1>5. /\ \A p \in Ids : at'[p] = "sync" /\ pos'[p] = 1
      /\ at' \in [Ids -> {"sync", "body"}] /\ pos' \in [Ids -> 1 .. Size + 1]
  BY <1>1, <1>2, <1>4
<1>6. \A q \in Ids, x \in 1 .. Size : ~Crossed(q, x)'
  BY <1>4, <1>5 DEF Crossed
<1>7. \A x \in 1 .. Size : Leader(x)' = Leader(x)
  BY <1>3 DEF Leader
<1>8. CellsTypeOK'
  BY <1>1, <1>3, <1>5, ClearedFacts DEF CellsTypeOK
<1>9. ASSUME cfg.mode = "user" PROVE UserInv'
  BY <1>1, <1>3, <1>4, <1>9, ClearedFacts DEF UserInv
<1>10. ASSUME cfg.mode = "user2" PROVE User2Inv'
  <2>1. Stride = 1
    BY <1>10 DEF UnitStride, Stride
  <2>2. \A x \in 1 .. Size : x <= N => barrier'[Leader(x)] = 1 - Free(Order[x])
    BY <1>1, <1>10, <2>1, ClearedFacts
  <2> SUFFICES ASSUME NEW x \in 1 .. Size PROVE User2Of(Leader(x), x)'
    BY <1>3 DEF User2Inv
  <2> DEFINE i == Leader(x)
  <2>3. i \in Ids /\ i = Leader(x) /\ i' = i
    BY <1>4, <1>7
  <2> HIDE DEF i
  <2>4. User2Of(i, x)'
    BY <1>3, <1>6, <2>2, <2>3 DEF User2Of
  <2> QED
    BY <1>7, <2>3, <2>4
<1> QED
  BY <1>1, <1>3, <1>6, <1>8, <1>9, <1>10 DEF CellsInv, LedInv

LEMMA StepCells ==
  UnitStride /\ cfg \in Configs /\ CellsInv /\ [ThreadNext]_threadVars
  => cfg' \in Configs /\ CellsInv'
<1> SUFFICES ASSUME UnitStride, cfg \in Configs, CellsInv, [ThreadNext]_threadVars
             PROVE  cfg' \in Configs /\ CellsInv'
  OBVIOUS
<1>1. ASSUME NEW p \in Ids, thread(p) PROVE cfg' \in Configs /\ CellsInv'
  <2>1. cfg' = cfg
    BY <1>1 DEF thread, Cross, ReadTimebase, Synchronise, Body, Collect
  <2>2. CASE cfg.mode = "timebase"
    BY <2>1, <2>2 DEF CellsInv
  <2>3. CASE cfg.mode # "timebase"
    <3>1. at[p] \in {"sync", "body"}
      BY <2>3 DEF CellsInv, CellsTypeOK
    <3>2. Cross(p) \/ Body(p)
      BY <1>1, <2>3, <3>1 DEF thread, ReadTimebase, Synchronise, Collect, Step
    <3> QED
      BY <2>1, <2>3, <3>2, StepCross, StepBody
  <2> QED
    BY <2>2, <2>3
<1>2. ASSUME UNCHANGED vars PROVE cfg' \in Configs /\ CellsInv'
  <2>1. cfg' = cfg /\ at' = at /\ pos' = pos /\ barrier' = barrier
    BY <1>2 DEF vars
  <2>2. Order' = Order /\ Size' = Size /\ Cells' = Cells
    BY <2>1, SameOrder
  <2>3. /\ CellsTypeOK' <=> CellsTypeOK
        /\ \A q, x : Crossed(q, x)' <=> Crossed(q, x)
        /\ \A x : Leader(x)' = Leader(x)
    BY <2>1, <2>2 DEF CellsTypeOK, Crossed, Leader, In
  <2>4. (LedInv' <=> LedInv) /\ (UserInv' <=> UserInv)
    BY <2>1, <2>2, <2>3 DEF LedInv, UserInv
  <2>5. User2Inv' <=> User2Inv
    BY <2>1, <2>2 DEF User2Inv, User2Of, Crossed, Leader
  <2> QED
    BY <2>1, <2>3, <2>4, <2>5 DEF CellsInv
<1>3. ASSUME Reinit PROVE cfg' \in Configs /\ CellsInv'
  BY <1>3, NextRunCells DEF Reinit
<1> QED
  BY <1>1, <1>2, <1>3
     DEF ThreadNext, loop, stabilize, wake, spurious, drain, next_run, ThreadFinished, threadVars

LEMMA CellsAlways == UnitStride => (ThreadSpec => [](cfg \in Configs /\ CellsInv))
<1> SUFFICES ASSUME UnitStride PROVE ThreadSpec => [](cfg \in Configs /\ CellsInv)
  OBVIOUS
<1>1. ThreadInit => cfg \in Configs /\ CellsInv
  BY FreshCells DEF ThreadInit, Init
<1>2. (cfg \in Configs /\ CellsInv) /\ [ThreadNext]_threadVars
      => (cfg \in Configs /\ CellsInv)'
  BY StepCells
<1> QED
  BY <1>1, <1>2, PTL DEF ThreadSpec

\* In modes user and user2 a thread is in the code of an iteration only after
\* the leader of the iteration has reached it.
THEOREM LeaderFollowed == UnitStride => (ThreadSpec => []FollowsLeader)
<1> SUFFICES ASSUME UnitStride PROVE ThreadSpec => []FollowsLeader
  OBVIOUS
<1>1. cfg \in Configs /\ CellsInv => FollowsLeader
  <2> SUFFICES ASSUME cfg \in Configs, CellsInv PROVE FollowsLeader
    OBVIOUS
  <2>1. ASSUME cfg.mode # "timebase", NEW p \in Ids, at[p] = "body"
        PROVE  Crossed(Index(p) % N, pos[p])
    <3>1. CellsTypeOK /\ LedInv
      BY <2>1 DEF CellsInv
    <3>2. pos[p] \in 1 .. Size /\ Crossed(p, pos[p])
      BY <2>1, <3>1, Ranks DEF CellsTypeOK, Crossed
    <3> QED
      BY <3>1, <3>2 DEF LedInv, Leader, Index
  <2> QED
    BY <2>1, EachCellOnce DEF FollowsLeader
<1> QED
  BY <1>1, CellsAlways, PTL

\* The lead goes round the threads: each leads one of N consecutive iterations.
\* So it is in mode user2, and in mode user when the loop goes down by one.
Rotating ==
  cfg.mode = "user" =>
    \A p \in Ids, r \in 0 .. Size - N : \E x \in r + 1 .. r + N : Leader(x) = p

LEMMA RotatesByOne ==
  ASSUME cfg \in Configs, Stride = 1, NEW p \in Ids, NEW r \in 0 .. Size - N
  PROVE  \E x \in r + 1 .. r + N : Leader(x) = p
<1>1. N \in Nat /\ N > 0 /\ Size \in Nat
  BY TestLoopAssumption DEF Size
<1> DEFINE y == Size - r - N
           u == (p - y) % N
           c == (p - y) \div N
           x == r + N - u
<1>2. y \in Nat /\ p \in 0 .. N - 1
  BY <1>1 DEF Ids
<1>3. u \in 0 .. N - 1 /\ c \in Int /\ p - y = N * c + u
  <2> DEFINE z == p - y
  <2>1. z \in Int
    BY <1>2
  <2> HIDE DEF z
  <2>2. z % N \in 0 .. N - 1 /\ z \div N \in Int /\ z = N * (z \div N) + (z % N)
    BY <1>1, <2>1, Division
  <2> QED
    BY <2>2 DEF z
<1> HIDE DEF u, c
<1>4. x \in r + 1 .. r + N /\ x \in 1 .. Size /\ Size - x = y + u
  BY <1>1, <1>2, <1>3
<1>5. Size - x = N * (0 - c) + p
  <2>1. N * (0 - c) = 0 - N * c
    BY <1>1, <1>3
  <2> HIDE DEF y, x
  <2> QED
    BY <1>1, <1>2, <1>3, <1>4, <2>1
<1> DEFINE k == Size - x
           e == 0 - c
<1>6. k \in Int /\ e \in Int /\ k = N * e + p
  BY <1>1, <1>2, <1>3, <1>5
<1> HIDE DEF k, e
<1>7. p = k % N
  BY <1>1, <1>2, <1>6, Division
<1> HIDE DEF x
<1>8. Order[x] = k
  BY <1>4, Downwards DEF k
<1> QED
  BY <1>4, <1>7, <1>8 DEF Leader

LEMMA Drift ==
  ASSUME UnitStride, LoopInv, CellsInv, Rotating
  PROVE  DriftBound
<1> SUFFICES ASSUME NEW p \in Ids, NEW q \in Ids, ~(pos[p] - pos[q] <= N) PROVE FALSE
  BY DEF DriftBound
<1>0. cfg \in Configs /\ N \in Nat /\ N > 0
  BY Instances DEF LoopInv, LoopTypeOK
<1>1. CASE cfg.mode = "timebase"
  <2>1. /\ CallsOf(p) /\ CallsOf(q) /\ left[p] <= entered[q]
        /\ pos[p] \in Nat /\ pos[q] \in Nat /\ left[p] \in Nat
        /\ left[q] \in Nat /\ entered[q] \in Nat
    BY <1>1, Positions DEF LoopInv
  <2>2. /\ at[p] \in {"sync", "store", "enter", "wait", "load", "body", "enter2", "wait2"}
        /\ at[q] \in {"sync", "store", "enter", "wait", "load", "body", "enter2", "wait2"}
    BY DEF LoopInv, LoopTypeOK
  <2>3. 2 * (pos[p] - 1) <= left[p]
    BY <2>1, <2>2 DEF CallsOf
  <2>4. entered[q] <= 2 * pos[q]
    BY <2>1, <2>2 DEF CallsOf
  <2> QED
    BY <1>0, <2>1, <2>3, <2>4
<1>2. CASE cfg.mode # "timebase"
  <2>1. CellsTypeOK /\ LedInv
    BY <1>2 DEF CellsInv
  <2>2. Size \in Nat /\ pos[p] \in Nat /\ pos[q] \in Nat /\ pos[q] > 0 /\ pos[p] <= Size + 1
    BY <1>0, <2>1, Ranks DEF CellsTypeOK
  <2>3. pos[q] \in 0 .. Size - N
    BY <1>0, <2>2
  <2>4. PICK x \in pos[q] + 1 .. pos[q] + N : Leader(x) = q
    <3>1. CASE cfg.mode = "user"
      BY <2>3, <3>1 DEF Rotating
    <3>2. CASE cfg.mode = "user2"
      <4>1. Stride = 1
        BY <1>0, <3>2 DEF UnitStride, Stride
      <4> QED
        BY <1>0, <2>3, <4>1, RotatesByOne
    <3> QED
      BY <1>0, <1>2, <3>1, <3>2, TestLoopAssumption
  <2>5. x \in 1 .. Size /\ x < pos[p] /\ x > pos[q]
    BY <1>0, <2>2, <2>4
  <2>6. Crossed(p, x) /\ ~Crossed(q, x)
    BY <2>2, <2>5 DEF Crossed
  <2> QED
    BY <2>1, <2>4, <2>5, <2>6 DEF LedInv
<1> QED
  BY <1>1, <1>2

LEMMA LoopAlways == Trailing => (ThreadSpec => []LoopInv)
<1> SUFFICES ASSUME Trailing PROVE ThreadSpec => []LoopInv
  OBVIOUS
<1>1. ThreadInit => LoopInv
  BY InitLoopInv DEF ThreadInit
<1>2. LoopInv /\ [ThreadNext]_threadVars => LoopInv'
  BY StepLoopInv
<1> QED
  BY <1>1, <1>2, PTL DEF ThreadSpec

\* When the lead goes round the threads, one runs ahead of another by one
\* rotation of the lead and no more, in all the modes.
THEOREM DriftsByARotation ==
  UnitStride /\ Trailing => (ThreadSpec => [](Rotating => DriftBound))
<1> SUFFICES ASSUME UnitStride, Trailing PROVE ThreadSpec => [](Rotating => DriftBound)
  OBVIOUS
<1>1. LoopInv /\ CellsInv => (Rotating => DriftBound)
  BY Drift
<1>2. ThreadSpec => [](cfg \in Configs /\ CellsInv)
  BY CellsAlways
<1>3. ThreadSpec => []LoopInv
  BY LoopAlways
<1> QED
  BY <1>1, <1>2, <1>3, PTL

\* In particular when the loops of modes user and user2 go down by one.
THEOREM DriftBounded ==
  ASSUME Trailing, \A c \in Configs : c.mode # "timebase" => c.stride = 1
  PROVE  ThreadSpec => []DriftBound
<1>1. UnitStride
  BY DEF UnitStride
<1>2. cfg \in Configs /\ CellsInv => Rotating
  <2> SUFFICES ASSUME cfg \in Configs, cfg.mode = "user" PROVE Rotating
    BY DEF Rotating
  <2>1. Stride = 1
    BY DEF Stride
  <2> QED
    BY <2>1, RotatesByOne DEF Rotating
<1>3. ThreadSpec => [](Rotating => DriftBound)
  BY <1>1, DriftsByARotation
<1>4. ThreadSpec => [](cfg \in Configs /\ CellsInv)
  BY <1>1, CellsAlways
<1> QED
  BY <1>2, <1>3, <1>4, PTL
=============================================================================
