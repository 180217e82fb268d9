----------------------------- MODULE ZyvaProofs -----------------------------
(***************************************************************************)
(* The harness is correct for every number of instances, threads and runs: *)
(* the instances stop together, no outcome is lost, and the test threads   *)
(* that run at the same time do not crowd on a processor.                  *)
(***************************************************************************)
EXTENDS Zyva, FiniteSetTheorems, TLAPS

Pcs == {"none", "start", "wait0", "top", "enter1", "wait1", "check", "place",
        "enter2", "wait2", "reinit", "join", "ret"}

\* The indexes of aff_cpus: more than Slots when the list is longer.
Array == DOMAIN cmd.array

TypeOK ==
  /\ main \in {"launch", "own", "join", "done", "fatal"} \X Z
  /\ cmd.aff_mode \in {"random", "scan", "other"} /\ cmd.speedcheck \in BOOLEAN
  /\ cmd.array \in [Array -> Int] /\ IsFiniteSet(Array) /\ Slots \subseteq Array
  /\ cmd.aff_mode # "random" => Array = Slots
  /\ pc \in [Z -> Pcs]
  /\ n_run \in [Z -> 0 .. max_run]
  /\ hist \in [Z -> [n_pos: Nat, n_neg: Nat]]
  /\ th \in [Z -> [Ids -> {"none", "launched", "running", "ended"}]]
  /\ on \in [Z -> [Ids -> Int]]
  /\ aff_cpus \in [Array -> Int]
  /\ stop_now \in {0, 1}
  /\ total \in [n_pos: Nat, n_neg: Nat]
  /\ entered \in [Z -> Nat] /\ left \in [Z -> Nat]

\* The returns of an instance from p_barrier and its arrivals there, by its
\* position and its run.
BarrierOf(z) ==
  /\ pc[z] \in {"none", "start", "wait0"} => left[z] = 0 /\ n_run[z] = 0
  /\ pc[z] \notin {"none", "start", "wait0"} /\ ~Synced => left[z] = 1
  /\ pc[z] \in {"top", "enter1", "wait1"} /\ Synced => left[z] = 2 * n_run[z] + 1
  /\ pc[z] \in {"check", "place", "enter2", "wait2"} => left[z] = 2 * n_run[z] + 2
  /\ pc[z] \in {"reinit", "join"} /\ Synced => left[z] = 2 * n_run[z] + 3
  /\ pc[z] = "ret" /\ Synced =>
       left[z] = IF n_run[z] = max_run THEN 2 * n_run[z] + 1 ELSE 2 * n_run[z] + 2
  /\ entered[z] = IF pc[z] \in {"wait0", "wait1", "wait2"} THEN left[z] + 1 ELSE left[z]
  /\ pc[z] \in {"enter1", "wait1", "check", "place", "enter2", "wait2", "reinit", "join"}
       => n_run[z] < max_run
  /\ pc[z] \in {"enter1", "wait1", "check", "place", "enter2", "wait2"} => Synced

BarrierInv ==
  /\ \A z \in Z : BarrierOf(z)
  /\ \A y, z \in Z : left[y] <= entered[z]

\* An instance that has found stop_now at 0 goes on; stop_now stays at 0 until
\* all have gone on.  One that has found it at 1 stops, and so will all.
StopInv ==
  /\ stop_now = 1 => cmd.speedcheck
  /\ \A z \in Z : pc[z] = "ret" => n_run[z] = max_run \/ stop_now = 1
  /\ \A y, z \in Z :
       pc[y] \in {"place", "enter2", "wait2"} /\ entered[z] <= 2 * n_run[y] + 2
         => stop_now = 0
  /\ StopTogether

\* The histogram of an instance has the outcomes of its runs, and the sum those
\* of the instances that have been joined.
CountInv ==
  /\ \A z \in Z : sum_hist(hist[z]) = size_of_test * n_run[z]
  /\ \A k \in Z : main = <<"join", k>> /\ ~cmd.speedcheck =>
       sum_hist(total) = size_of_test * max_run * (k + 1)
  /\ NoFatal

\* The instances that run() has joined are over, and their histograms are in
\* the sum.
SumInv ==
  \A k \in Z : main = <<"join", k>> \/ (main[1] = "done" /\ k = n_exe - 1) =>
    /\ pc[n_exe - 1] = "ret" /\ \A j \in 0 .. k - 1 : pc[j] = "ret"
    /\ \E s \in [Z -> [n_pos: 0 .. total.n_pos, n_neg: 0 .. total.n_neg]] : Adds(s, k)

\* The row that instance z copies in mode scan.
Row(z) == cpu_scan[(n_run[z] % Len(cpu_scan)) + 1]

\* The array is still a rearrangement of what it was, f tells from where each
\* entry comes.
Rearranged ==
  \E f \in [Array -> Array] : Rearranges(f) /\ \A s \in Array : aff_cpus[s] = cmd.array[f[s]]

\* A test thread that runs is bound to what its entry still holds: one of a
\* rearranged array or, in mode scan, of the row of the run.
PlaceInv ==
  /\ cmd.aff_mode # "scan" => Rearranged
  /\ cmd.aff_mode = "scan" =>
       \A z \in Z : pc[z] \in {"enter2", "wait2", "reinit", "join"} =>
         \A p \in Ids : aff_cpus[Slot(z, p)] = Row(z)[Slot(z, p)]
  /\ \A z \in Z : \A p \in Ids :
       /\ pc[z] # "join" => th[z][p] = "none"
       /\ th[z][p] \in Busy => on[z][p] = aff_cpus[Slot(z, p)]

IInv == TypeOK /\ BarrierInv /\ StopInv /\ CountInv /\ SumInv /\ PlaceInv
-----------------------------------------------------------------------------
LEMMA Parameters ==
  /\ n_exe \in Nat /\ n_exe > 0 /\ N \in Nat /\ N > 0
  /\ max_run \in Nat /\ size_of_test \in Nat
  BY ZyvaAssumption

LEMMA Multiples ==
  ASSUME NEW a \in Nat, NEW b \in Nat, NEW m \in Nat, a < b
  PROVE  a * m \in Nat /\ a * m + m <= b * m
<1>1. b * m = a * m + m + (b - a - 1) * m
  OBVIOUS
<1>2. \A i, j \in Nat : i * j \in Nat
  OBVIOUS
<1>3. (b - a - 1) * m \in Nat /\ a * m \in Nat
  BY <1>2
<1> QED
  BY <1>1, <1>3

\* The slices of aff_cpus that instances have are disjoint.
LEMMA SlotsApart ==
  /\ \A z \in Z, p \in Ids : Slot(z, p) \in Slots
  /\ \A y, z \in Z, p, q \in Ids : Slot(y, p) = Slot(z, q) => y = z /\ p = q
<1> USE Parameters DEF Z, Ids, Slots, Slot
<1>1. ASSUME NEW z \in Z, NEW p \in Ids PROVE Slot(z, p) \in Slots
  <2>1. z * N \in Nat /\ z * N + N <= n_exe * N
    BY Multiples
  <2> QED
    BY <2>1
<1>2. ASSUME NEW y \in Z, NEW z \in Z, NEW p \in Ids, NEW q \in Ids, Slot(y, p) = Slot(z, q)
      PROVE  y = z /\ p = q
  <2>1. y < z => y * N + N <= z * N
    BY Multiples
  <2>2. z < y => z * N + N <= y * N
    BY Multiples
  <2>3. y * N \in Nat /\ z * N \in Nat
    BY Multiples
  <2>4. y = z
    BY <1>2, <2>1, <2>2, <2>3
  <2> QED
    BY <1>2, <2>3, <2>4
<1> QED
  BY <1>1, <1>2

LEMMA Rows ==
  ASSUME TypeOK, NEW z \in Z
  PROVE  /\ Row(z) \in [Slots -> Int]
         /\ \A s, u \in Slots : Row(z)[s] = Row(z)[u] /\ Row(z)[s] >= 0 => s = u
<1>1. n_run[z] \in Nat
  BY Parameters DEF TypeOK
<1>2. cpu_scan \in Seq([Slots -> Int]) /\ Len(cpu_scan) \in Nat /\ Len(cpu_scan) > 0
  BY ZyvaAssumption
<1>3. (n_run[z] % Len(cpu_scan)) + 1 \in DOMAIN cpu_scan
  BY <1>1, <1>2
<1>4. Row(z) \in [Slots -> Int]
  BY <1>2, <1>3 DEF Row
<1> QED
  BY <1>3, <1>4, ZyvaAssumption DEF Row

\* The array of mode random has an entry for each thread, at least.
LEMMA RepeatedType ==
  ASSUME NEW l \in Cpus
  PROVE  /\ Repeated(l) \in [DOMAIN Repeated(l) -> Int]
         /\ IsFiniteSet(DOMAIN Repeated(l)) /\ Slots \subseteq DOMAIN Repeated(l)
<1>1. l \in Seq(Nat) /\ Len(l) \in Nat /\ Len(l) > 0
  BY ZyvaAssumption
<1>2. n_exe * N \in Nat /\ n_exe * N = N * n_exe
  BY Parameters
<1> DEFINE m == Larger(Len(l), N * n_exe) - 1
<1>3. m \in Int /\ m >= n_exe * N - 1
  BY <1>1, <1>2 DEF Larger
<1>4. DOMAIN Repeated(l) = 0 .. m
  BY DEF Repeated
<1>5. ASSUME NEW k \in 0 .. m PROVE Repeated(l)[k] \in Int
  <2>1. k \in Nat /\ (k % Len(l)) + 1 \in 1 .. Len(l)
    BY <1>1, <1>3
  <2>2. l[(k % Len(l)) + 1] \in Nat
    BY <1>1, <2>1
  <2> QED
    BY <2>2 DEF Repeated
<1>6. Repeated(l) \in [DOMAIN Repeated(l) -> Int]
  <2> HIDE DEF m
  <2>1. Repeated(l) = [k \in 0 .. m |-> Repeated(l)[k]]
    BY <1>4 DEF Repeated
  <2> QED
    BY <1>4, <1>5, <2>1
<1>7. Slots \subseteq 0 .. m
  BY <1>2, <1>3 DEF Slots
<1>8. IsFiniteSet(0 .. m)
  BY <1>3, FS_Interval
<1> QED
  BY <1>4, <1>6, <1>7, <1>8

\* What Place of instance 0 writes in mode random.
LEMMA Shuffled ==
  ASSUME TypeOK, Shuffle
  PROVE  /\ aff_cpus' \in [Array -> Int]
         /\ Rearranged => \E f \in [Array -> Array] :
              Rearranges(f) /\ \A s \in Array : aff_cpus'[s] = cmd.array[f[s]]
<1> PICK g \in Shuffles : /\ DOMAIN g = DOMAIN aff_cpus
                          /\ aff_cpus' = [s \in DOMAIN g |-> aff_cpus[g[s]]]
  BY DEF Shuffle
<1>1. aff_cpus \in [Array -> Int] /\ DOMAIN g = Array
  BY DEF TypeOK
<1>2. g \in [Array -> Array] /\ Rearranges(g)
  BY <1>1, ZyvaAssumption
<1>3. aff_cpus' \in [Array -> Int] /\ \A s \in Array : aff_cpus'[s] = aff_cpus[g[s]]
  BY <1>1, <1>2
<1>4. ASSUME NEW f \in [Array -> Array], Rearranges(f),
             \A s \in Array : aff_cpus[s] = cmd.array[f[s]]
      PROVE  \E h \in [Array -> Array] :
               Rearranges(h) /\ \A s \in Array : aff_cpus'[s] = cmd.array[h[s]]
  <2> DEFINE h == [s \in Array |-> f[g[s]]]
  <2>1. h \in [Array -> Array] /\ Rearranges(h)
    BY <1>2, <1>4 DEF Rearranges
  <2>2. \A s \in Array : aff_cpus'[s] = cmd.array[h[s]]
    BY <1>2, <1>3, <1>4
  <2> QED
    BY <2>1, <2>2
<1> QED
  BY <1>3, <1>4 DEF Rearranged
-----------------------------------------------------------------------------
(* Types.                                                                   *)
LEMMA StepType == TypeOK /\ BarrierInv /\ [Next]_vars => TypeOK'
<1> SUFFICES ASSUME TypeOK, BarrierInv, [Next]_vars PROVE TypeOK'
  OBVIOUS
<1> USE Parameters
<1>1. ASSUME Launch PROVE TypeOK'
  <2> PICK k \in Z : main = <<"launch", k>> /\ Step(k, "none", "start")
                      /\ main' = IF k < n_exe - 1 THEN <<"launch", k + 1>> ELSE <<"own", 0>>
    BY <1>1 DEF Launch
  <2>1. main' \in {"launch", "own"} \X Z
    BY DEF Z
  <2>2. pc' \in [Z -> Pcs]
    BY DEF Step, TypeOK, Pcs
  <2> QED
    BY <1>1, <2>1, <2>2 DEF Launch, TypeOK, Array, RunUnchanged, bar
<1>2. ASSUME Return PROVE TypeOK'
  <2>1. main' \in {"join"} \X Z /\ n_exe - 1 \in Z
    BY <1>2 DEF Return, Z
  <2> QED
    BY <1>2, <2>1 DEF Return, TypeOK, Array, RunUnchanged, bar
<1>3. ASSUME JoinZyva PROVE TypeOK'
  <2>1. main' \in {"join", "fatal"} \X Z
    BY <1>3 DEF JoinZyva, Z
  <2>2. total' \in [n_pos: Nat, n_neg: Nat]
    <3> PICK k \in 0 .. n_exe - 2 : total' \in {total, merge_hists(total, hist[k])}
      BY <1>3 DEF JoinZyva
    <3>1. hist[k] \in [n_pos: Nat, n_neg: Nat] /\ total \in [n_pos: Nat, n_neg: Nat]
      <4>1. k \in Z
        BY DEF Z
      <4> QED
        BY <4>1 DEF TypeOK
    <3> QED
      BY <3>1 DEF merge_hists
  <2> QED
    BY <1>3, <2>1, <2>2 DEF JoinZyva, TypeOK, Array, RunUnchanged, bar
<1>4. ASSUME Conclude PROVE TypeOK'
  <2>1. main' \in {"done", "fatal"} \X Z
    BY <1>4 DEF Conclude, Z
  <2> QED
    BY <1>4, <2>1 DEF Conclude, TypeOK, Array, RunUnchanged, bar
<1>5. ASSUME NEW z \in Z, PbWait(z) PROVE TypeOK'
  <2>1. UNCHANGED <<cmd, main, total, n_run, hist, th, on, stop_now, aff_cpus>>
    BY <1>5 DEF PbWait, MainUnchanged, RunUnchanged
  <2>2. pc' \in [Z -> Pcs]
    BY <1>5 DEF PbWait, Step, TypeOK, Pcs
  <2>3. entered' \in [Z -> Nat] /\ left' \in [Z -> Nat]
    <3>1. Bar!Enter(z) \/ Bar!Leave(z)
      BY <1>5 DEF PbWait
    <3>2. entered \in [Z -> Nat] /\ left \in [Z -> Nat]
      BY DEF TypeOK
    <3>3. CASE Bar!Enter(z)
      BY <3>2, <3>3 DEF Bar!Enter
    <3>4. CASE Bar!Leave(z)
      BY <3>2, <3>4 DEF Bar!Leave
    <3> QED
      BY <3>1, <3>3, <3>4
  <2> QED
    BY <2>1, <2>2, <2>3 DEF TypeOK, Array
<1>6. ASSUME NEW z \in Z, Top(z) PROVE TypeOK'
  BY <1>6 DEF Top, TypeOK, Array, MainUnchanged, RunUnchanged, bar, Pcs
<1>7. ASSUME NEW z \in Z, Check(z) PROVE TypeOK'
  BY <1>7 DEF Check, Step, TypeOK, Array, MainUnchanged, RunUnchanged, bar, Pcs
<1>8. ASSUME NEW z \in Z, Place(z) PROVE TypeOK'
  <2>1. UNCHANGED <<cmd, main, total, n_run, hist, th, on, stop_now, entered, left>>
    BY <1>8 DEF Place, MainUnchanged, RunUnchanged, bar
  <2>2. pc' \in [Z -> Pcs]
    BY <1>8 DEF Place, Step, TypeOK, Pcs
  <2>3. aff_cpus' \in [Array -> Int]
    <3>1. CASE cmd.aff_mode = "scan"
      <4>1. aff_cpus' = [s \in Slots |-> IF s \in Slice(z) THEN Row(z)[s] ELSE aff_cpus[s]]
        BY <1>8, <3>1 DEF Place, Row
      <4>2. Array = Slots
        BY <3>1 DEF TypeOK
      <4> QED
        BY <4>1, <4>2, Rows DEF TypeOK
    <3>2. CASE cmd.aff_mode # "scan"
      BY <1>8, <3>2, Shuffled DEF Place, TypeOK
    <3> QED
      BY <3>1, <3>2
  <2> QED
    BY <2>1, <2>2, <2>3 DEF TypeOK, Array
<1>9. ASSUME NEW z \in Z, LaunchThreads(z) PROVE TypeOK'
  BY <1>9 DEF LaunchThreads, Step, TypeOK, Array, MainUnchanged, bar, Pcs
<1>10. ASSUME NEW z \in Z, NEW p \in Ids, StartThread(z, p) PROVE TypeOK'
  BY <1>10, SlotsApart DEF StartThread, TypeOK, Array, MainUnchanged, bar
<1>11. ASSUME NEW z \in Z, NEW p \in Ids, EndThread(z, p) PROVE TypeOK'
  BY <1>11 DEF EndThread, TypeOK, Array, MainUnchanged, bar
<1>12. ASSUME NEW z \in Z, JoinThreads(z) PROVE TypeOK'
  <2>1. n_run[z] < max_run
    BY <1>12 DEF JoinThreads, Step, BarrierInv, BarrierOf
  <2>2. n_run' \in [Z -> 0 .. max_run]
    BY <1>12, <2>1 DEF JoinThreads, TypeOK
  <2>3. hist' \in [Z -> [n_pos: Nat, n_neg: Nat]]
    BY <1>12 DEF JoinThreads, TypeOK, merge_hists
  <2>4. UNCHANGED <<cmd, main, total, on, aff_cpus, entered, left>>
    BY <1>12 DEF JoinThreads, MainUnchanged, bar
  <2>5. pc' \in [Z -> Pcs] /\ th' \in [Z -> [Ids -> {"none", "launched", "running", "ended"}]]
        /\ stop_now' \in {0, 1}
    BY <1>12 DEF JoinThreads, Step, TypeOK, Pcs
  <2> QED
    BY <2>2, <2>3, <2>4, <2>5 DEF TypeOK, Array
<1>13. ASSUME UNCHANGED vars PROVE TypeOK'
  BY <1>13 DEF vars, bar, TypeOK, Array
<1> QED
  BY <1>1, <1>2, <1>3, <1>4, <1>5, <1>6, <1>7, <1>8, <1>9, <1>10, <1>11, <1>12, <1>13
     DEF Next, run, zyva, Thread, Finished
-----------------------------------------------------------------------------
(* The barrier.                                                             *)
LEMMA StepBarrier == TypeOK /\ BarrierInv /\ [Next]_vars => BarrierInv'
<1> SUFFICES ASSUME TypeOK, BarrierInv, [Next]_vars PROVE BarrierInv'
  OBVIOUS
<1> USE Parameters
\* A step of instance z changes what BarrierOf says of z only.
<1>1. ASSUME NEW z \in Z, UNCHANGED cmd, BarrierOf(z)',
             \A y \in Z \ {z} : /\ pc'[y] = pc[y] /\ n_run'[y] = n_run[y]
                              /\ left'[y] = left[y] /\ entered'[y] = entered[y],
             \A y \in Z : left'[z] <= entered'[y] /\ left'[y] <= entered'[z]
      PROVE  BarrierInv'
  <2>1. \A y \in Z : BarrierOf(y)'
    BY <1>1 DEF BarrierInv, BarrierOf, Synced
  <2>2. \A x, y \in Z : left'[x] <= entered'[y]
    BY <1>1 DEF BarrierInv
  <2> QED
    BY <2>1, <2>2 DEF BarrierInv
<1>2. ASSUME UNCHANGED <<cmd, pc, n_run, left, entered>> PROVE BarrierInv'
  BY <1>2 DEF BarrierInv, BarrierOf, Synced
<1>4. ASSUME Launch PROVE BarrierInv'
  <2> PICK k \in Z : Step(k, "none", "start") /\ UNCHANGED <<cmd, bar, n_run>>
    BY <1>4 DEF Launch, RunUnchanged
  <2>1. BarrierOf(k) /\ BarrierOf(k)'
    BY DEF Step, bar, BarrierInv, BarrierOf, Synced, TypeOK
  <2> QED
    BY <1>1, <2>1 DEF Step, bar, TypeOK, BarrierInv
<1>5. ASSUME Return \/ JoinZyva \/ Conclude PROVE BarrierInv'
  BY <1>2, <1>5 DEF Return, JoinZyva, Conclude, bar, RunUnchanged
<1>6. ASSUME NEW z \in Z, PbWait(z), Bar!Enter(z) PROVE BarrierInv'
  <2>1. BarrierOf(z)
    BY DEF BarrierInv
  <2>0. /\ pc \in [Z -> Pcs] /\ n_run \in [Z -> 0 .. max_run]
        /\ entered \in [Z -> Nat] /\ left \in [Z -> Nat]
    BY DEF TypeOK
  <2>2. BarrierOf(z)'
    <3>1. /\ UNCHANGED <<cmd, n_run, left>> /\ entered'[z] = left[z] + 1 /\ entered[z] = left[z]
          /\ \/ pc[z] = "start" /\ pc'[z] = "wait0"
             \/ pc[z] = "enter1" /\ pc'[z] = "wait1"
             \/ pc[z] = "enter2" /\ pc'[z] = "wait2"
      BY <1>6, <2>0 DEF PbWait, Step, Bar!Enter, Bar!Leave, RunUnchanged, MainUnchanged
    <3> QED
      BY <2>0, <2>1, <3>1 DEF BarrierOf, Synced
  <2>3. \A y \in Z \ {z} : /\ pc'[y] = pc[y] /\ n_run'[y] = n_run[y]
                          /\ left'[y] = left[y] /\ entered'[y] = entered[y]
    BY <1>6 DEF PbWait, Step, Bar!Enter, RunUnchanged, TypeOK
  <2>4. \A y \in Z : left'[z] <= entered'[y] /\ left'[y] <= entered'[z]
    BY <1>6 DEF Bar!Enter, BarrierInv, TypeOK
  <2> QED
    BY <1>1, <1>6, <2>2, <2>3, <2>4 DEF PbWait, MainUnchanged
<1>7. ASSUME NEW z \in Z, PbWait(z), Bar!Leave(z) PROVE BarrierInv'
  <2>1. BarrierOf(z)
    BY DEF BarrierInv
  <2>0. /\ pc \in [Z -> Pcs] /\ n_run \in [Z -> 0 .. max_run]
        /\ entered \in [Z -> Nat] /\ left \in [Z -> Nat]
    BY DEF TypeOK
  <2>2. BarrierOf(z)'
    BY <1>7, <2>0, <2>1 DEF PbWait, Step, Bar!Enter, Bar!Leave, RunUnchanged, MainUnchanged, BarrierOf, Synced
  <2>3. \A y \in Z \ {z} : /\ pc'[y] = pc[y] /\ n_run'[y] = n_run[y]
                          /\ left'[y] = left[y] /\ entered'[y] = entered[y]
    BY <1>7 DEF PbWait, Step, Bar!Leave, RunUnchanged, TypeOK
  <2>4. \A y \in Z : left'[z] <= entered'[y] /\ left'[y] <= entered'[z]
    BY <1>7, <2>1 DEF Bar!Leave, BarrierInv, TypeOK, PbWait, Step, BarrierOf
  <2> QED
    BY <1>1, <1>7, <2>2, <2>3, <2>4 DEF PbWait, MainUnchanged
<1>8. ASSUME NEW z \in Z, Top(z) PROVE BarrierInv'
  <2>1. /\ BarrierOf(z) /\ pc[z] = "top" /\ UNCHANGED <<cmd, n_run, left, entered>>
        /\ n_run[z] \in 0 .. max_run /\ left[z] \in Nat /\ entered[z] \in Nat
    BY <1>8 DEF Top, MainUnchanged, RunUnchanged, bar, BarrierInv, TypeOK
  <2>2. pc'[z] = IF n_run[z] = max_run THEN "ret"
                 ELSE IF Synced THEN "enter1"
                 ELSE IF stop_now = 1 THEN "ret" ELSE "reinit"
    BY <1>8 DEF Top, TypeOK
  <2>3. BarrierOf(z)'
    BY <2>1, <2>2 DEF BarrierOf, Synced
  <2> QED
    BY <1>1, <1>8, <2>3 DEF Top, MainUnchanged, RunUnchanged, bar, TypeOK, BarrierInv
<1>9. ASSUME NEW z \in Z, Check(z) PROVE BarrierInv'
  <2>1. /\ BarrierOf(z) /\ pc[z] = "check" /\ UNCHANGED <<cmd, n_run, left, entered>>
        /\ n_run[z] \in 0 .. max_run /\ left[z] \in Nat /\ entered[z] \in Nat
        /\ pc'[z] \in {"ret", "place"}
    BY <1>9 DEF Check, Step, MainUnchanged, RunUnchanged, bar, BarrierInv, TypeOK
  <2>2. BarrierOf(z)'
    BY <2>1 DEF BarrierOf, Synced
  <2> QED
    BY <1>1, <1>9, <2>2 DEF Check, Step, MainUnchanged, RunUnchanged, bar, TypeOK, BarrierInv
<1>10. ASSUME NEW z \in Z, Place(z) PROVE BarrierInv'
  <2>1. BarrierOf(z)'
    BY <1>10 DEF Place, Step, MainUnchanged, RunUnchanged, bar, BarrierInv, BarrierOf, Synced, TypeOK
  <2> QED
    BY <1>1, <1>10, <2>1 DEF Place, Step, MainUnchanged, RunUnchanged, bar, TypeOK, BarrierInv
<1>11. ASSUME NEW z \in Z, LaunchThreads(z) PROVE BarrierInv'
  <2>1. BarrierOf(z)'
    BY <1>11 DEF LaunchThreads, Step, MainUnchanged, bar, BarrierInv, BarrierOf, Synced, TypeOK
  <2> QED
    BY <1>1, <1>11, <2>1 DEF LaunchThreads, Step, MainUnchanged, bar, TypeOK, BarrierInv
<1>12. ASSUME NEW z \in Z, NEW p \in Ids, Thread(z, p) PROVE BarrierInv'
  BY <1>2, <1>12 DEF Thread, StartThread, EndThread, MainUnchanged, bar
<1>13. ASSUME NEW z \in Z, JoinThreads(z) PROVE BarrierInv'
  <2>1. /\ BarrierOf(z) /\ pc[z] = "join" /\ pc'[z] = "top" /\ UNCHANGED <<cmd, left, entered>>
        /\ n_run[z] \in 0 .. max_run /\ left[z] \in Nat /\ entered[z] \in Nat
        /\ n_run'[z] = n_run[z] + 1
    BY <1>13 DEF JoinThreads, Step, MainUnchanged, bar, BarrierInv, TypeOK
  <2>2. BarrierOf(z)'
    BY <2>1 DEF BarrierOf, Synced
  <2> QED
    BY <1>1, <1>13, <2>2 DEF JoinThreads, Step, MainUnchanged, bar, TypeOK, BarrierInv
<1>14. ASSUME UNCHANGED vars PROVE BarrierInv'
  BY <1>2, <1>14 DEF vars, bar
<1>15. ASSUME NEW z \in Z, PbWait(z) PROVE BarrierInv'
  BY <1>6, <1>7, <1>15 DEF PbWait
<1> QED
  BY <1>4, <1>5, <1>8, <1>9, <1>10, <1>11, <1>12, <1>13, <1>14, <1>15
     DEF Next, run, zyva, Finished
-----------------------------------------------------------------------------
(* Stopping.                                                                *)
\* What the barrier says of two instances in a run: neither is a run ahead.
LEMMA Alongside ==
  ASSUME TypeOK, BarrierInv, NEW y \in Z, NEW z \in Z
  PROVE  /\ BarrierOf(y) /\ BarrierOf(z)
         /\ n_run[y] \in 0 .. max_run /\ n_run[z] \in 0 .. max_run
         /\ left[y] \in Nat /\ entered[y] \in Nat /\ left[z] \in Nat /\ entered[z] \in Nat
         /\ left[y] <= entered[z] /\ left[z] <= entered[y]
         /\ pc[y] \in Pcs
  BY DEF TypeOK, BarrierInv

\* An instance that finds stop_now at 1 between the waits finds the others there.
LEMMA AllStop ==
  ASSUME TypeOK, BarrierInv, StopInv, stop_now = 1,
         NEW y \in Z, NEW z \in Z, pc[z] = "check", Synced
  PROVE  n_run[y] = n_run[z] /\ pc[y] \in {"wait1", "check", "ret"}
<1> USE Parameters
<1>1. left[z] = 2 * n_run[z] + 2 /\ entered[z] = left[z] /\ n_run[z] < max_run
  BY Alongside DEF BarrierOf
<1>2. pc[y] \notin {"none", "start", "wait0", "top", "enter1", "reinit", "join"}
  BY <1>1, Alongside DEF BarrierOf
<1>3. CASE pc[y] \in {"place", "enter2", "wait2"}
  <2>1. n_run[y] = n_run[z]
    BY <1>1, <1>3, Alongside DEF BarrierOf
  <2> QED
    BY <1>1, <1>3, <2>1, Alongside DEF StopInv
<1>4. CASE pc[y] \in {"wait1", "check", "ret"}
  BY <1>1, <1>4, Alongside DEF BarrierOf
<1> QED
  BY <1>2, <1>3, <1>4, Alongside DEF Pcs

LEMMA StepStop == TypeOK /\ BarrierInv /\ StopInv /\ [Next]_vars => StopInv'
<1> SUFFICES ASSUME TypeOK, BarrierInv, StopInv, [Next]_vars PROVE StopInv'
  OBVIOUS
<1> USE Parameters
<1>1. ASSUME UNCHANGED <<cmd, stop_now, pc, n_run, entered>> PROVE StopInv'
  BY <1>1 DEF StopInv, StopTogether, Synced
\* A step of z that leaves stop_now and n_run alone.
<1>2. ASSUME NEW z \in Z, UNCHANGED <<cmd, stop_now, n_run>>,
             \A y \in Z \ {z} : pc'[y] = pc[y] /\ entered'[y] = entered[y],
             entered'[z] >= entered[z], entered'[z] \in Nat,
             pc'[z] = "ret" => n_run[z] = max_run \/ (stop_now = 1 /\ pc[z] = "check") \/ ~Synced,
             pc'[z] = "ret" => n_run[z] = max_run \/ stop_now = 1,
             pc'[z] \in {"place", "enter2", "wait2"} =>
               stop_now = 0 \/ pc[z] \in {"place", "enter2", "wait2"},
             pc[z] \in {"wait1", "check", "ret"} =>
               pc'[z] \in {"wait1", "check", "ret"} \/ stop_now = 0
      PROVE  StopInv'
  <2>1. (stop_now = 1 => cmd.speedcheck)'
    BY <1>2 DEF StopInv
  <2>2. (\A x \in Z : pc[x] = "ret" => n_run[x] = max_run \/ stop_now = 1)'
    BY <1>2 DEF StopInv
  <2>3. (\A x, y \in Z : pc[x] \in {"place", "enter2", "wait2"}
             /\ entered[y] <= 2 * n_run[x] + 2 => stop_now = 0)'
    <3> SUFFICES ASSUME NEW x \in Z, NEW y \in Z, pc'[x] \in {"place", "enter2", "wait2"},
                        entered'[y] <= 2 * n_run[x] + 2
                 PROVE  stop_now = 0
      BY <1>2
    <3>1. entered[y] \in Nat /\ n_run[x] \in Nat
      BY DEF TypeOK
    <3>2. entered'[y] \in Nat /\ entered'[y] >= entered[y]
      BY <1>2, <3>1
    <3>3. pc[x] \in {"place", "enter2", "wait2"} \/ stop_now = 0
      BY <1>2
    <3>4. entered[y] <= 2 * n_run[x] + 2
      BY <3>1, <3>2
    <3> QED
      BY <3>3, <3>4 DEF StopInv
  <2>4. StopTogether'
    <3> SUFFICES ASSUME Synced, NEW x \in Z, pc'[x] = "ret", n_run[x] < max_run, NEW y \in Z
                 PROVE  n_run[y] = n_run[x] /\ pc'[y] \in {"wait1", "check", "ret"}
      BY <1>2 DEF StopTogether, Synced
    <3>1. n_run[x] \in 0 .. max_run
      BY DEF TypeOK
    <3>2. stop_now = 1
      BY <1>2, <2>2, <3>1
    <3>3. pc[x] = "ret" \/ pc[x] = "check"
      BY <1>2, <3>1
    <3>4. n_run[y] = n_run[x] /\ pc[y] \in {"wait1", "check", "ret"}
      BY <3>2, <3>3, AllStop DEF StopInv, StopTogether
    <3> QED
      BY <1>2, <3>2, <3>4
  <2> QED
    BY <2>1, <2>2, <2>3, <2>4 DEF StopInv
<1>3. ASSUME Launch PROVE StopInv'
  <2> PICK k \in Z : Step(k, "none", "start") /\ UNCHANGED <<cmd, entered, n_run, stop_now>>
    BY <1>3 DEF Launch, RunUnchanged, bar
  <2>1. pc[k] = "none" /\ pc'[k] = "start" /\ entered[k] \in Nat
    BY DEF Step, TypeOK
  <2>2. \A y \in Z \ {k} : pc'[y] = pc[y]
    BY DEF Step, TypeOK
  <2> QED
    BY <1>2, <2>1, <2>2
<1>4. ASSUME Return \/ JoinZyva \/ Conclude PROVE StopInv'
  BY <1>1, <1>4 DEF Return, JoinZyva, Conclude, bar, RunUnchanged
<1>5. ASSUME NEW z \in Z, PbWait(z) PROVE StopInv'
  <2>1. UNCHANGED <<cmd, stop_now, n_run>> /\ entered[z] \in Nat
    BY <1>5 DEF PbWait, MainUnchanged, RunUnchanged, TypeOK
  <2>2. \A y \in Z \ {z} : pc'[y] = pc[y] /\ entered'[y] = entered[y]
    BY <1>5 DEF PbWait, Step, Bar!Enter, Bar!Leave, TypeOK
  <2>3. entered'[z] >= entered[z] /\ entered'[z] \in Nat
    BY <1>5, <2>1 DEF PbWait, Bar!Enter, Bar!Leave, TypeOK
  <2>4. /\ pc'[z] \in {"wait0", "top", "wait1", "check", "wait2", "reinit"}
        /\ pc'[z] = "wait2" => pc[z] = "enter2"
        /\ pc[z] \in {"wait1", "check", "ret"} => pc'[z] = "check"
    BY <1>5 DEF PbWait, Step, TypeOK
  <2> QED
    BY <1>2, <2>1, <2>2, <2>3, <2>4
<1>6. ASSUME NEW z \in Z, Top(z) PROVE StopInv'
  <2>1. UNCHANGED <<cmd, stop_now, n_run, entered>> /\ entered[z] \in Nat /\ pc[z] = "top"
    BY <1>6 DEF Top, MainUnchanged, RunUnchanged, bar, TypeOK
  <2>2. \A y \in Z \ {z} : pc'[y] = pc[y]
    BY <1>6 DEF Top, TypeOK
  <2>3. pc'[z] = IF n_run[z] = max_run THEN "ret"
                 ELSE IF Synced THEN "enter1"
                 ELSE IF stop_now = 1 THEN "ret" ELSE "reinit"
    BY <1>6 DEF Top, TypeOK
  <2> QED
    BY <1>2, <2>1, <2>2, <2>3
<1>7. ASSUME NEW z \in Z, Check(z) PROVE StopInv'
  <2>1. UNCHANGED <<cmd, stop_now, n_run, entered>> /\ entered[z] \in Nat /\ pc[z] = "check"
    BY <1>7 DEF Check, Step, MainUnchanged, RunUnchanged, bar, TypeOK
  <2>2. \A y \in Z \ {z} : pc'[y] = pc[y]
    BY <1>7 DEF Check, Step, TypeOK
  <2>3. pc'[z] = IF stop_now = 1 THEN "ret" ELSE "place"
    BY <1>7 DEF Check, Step, TypeOK
  <2>4. stop_now \in {0, 1}
    BY DEF TypeOK
  <2> QED
    BY <1>2, <2>1, <2>2, <2>3, <2>4
<1>8. ASSUME NEW z \in Z, Place(z) \/ LaunchThreads(z) PROVE StopInv'
  <2>1. UNCHANGED <<cmd, stop_now, n_run, entered>> /\ entered[z] \in Nat
    BY <1>8 DEF Place, LaunchThreads, MainUnchanged, RunUnchanged, bar, TypeOK
  <2>2. \A y \in Z \ {z} : pc'[y] = pc[y]
    BY <1>8 DEF Place, LaunchThreads, Step, TypeOK
  <2>3. (pc[z] = "place" /\ pc'[z] = "enter2") \/ (pc[z] = "reinit" /\ pc'[z] = "join")
    BY <1>8 DEF Place, LaunchThreads, Step, TypeOK
  <2> QED
    BY <1>2, <2>1, <2>2, <2>3
<1>9. ASSUME NEW z \in Z, NEW p \in Ids, Thread(z, p) PROVE StopInv'
  BY <1>1, <1>9 DEF Thread, StartThread, EndThread, MainUnchanged, bar
<1>10. ASSUME NEW z \in Z, JoinThreads(z) PROVE StopInv'
  <2>1. /\ UNCHANGED <<cmd, entered>> /\ pc[z] = "join" /\ pc'[z] = "top"
        /\ stop_now' \in {0, 1} /\ (stop_now = 1 => stop_now' = 1)
        /\ (stop_now' = 1 => stop_now = 1 \/ cmd.speedcheck)
    BY <1>10 DEF JoinThreads, Step, Settled, MainUnchanged, bar, TypeOK
  <2>2. \A y \in Z \ {z} : pc'[y] = pc[y] /\ n_run'[y] = n_run[y]
    BY <1>10 DEF JoinThreads, Step, TypeOK
  <2>3. (stop_now = 1 => cmd.speedcheck)'
    BY <2>1 DEF StopInv
  <2>4. (\A x \in Z : pc[x] = "ret" => n_run[x] = max_run \/ stop_now = 1)'
    BY <2>1, <2>2 DEF StopInv
  \* No other instance is at the second wait of a run that z has not begun.
  <2>5. ASSUME NEW x \in Z, NEW y \in Z, pc'[x] \in {"place", "enter2", "wait2"},
               entered'[y] <= 2 * n_run'[x] + 2
        PROVE  FALSE
    <3>1. x # z /\ pc[x] \in {"place", "enter2", "wait2"} /\ entered[y] <= 2 * n_run[x] + 2
      BY <2>1, <2>2, <2>5
    <3>2. Synced /\ left[x] = 2 * n_run[x] + 2
      BY <3>1, Alongside DEF BarrierOf
    <3>3. left[z] = 2 * n_run[z] + 3 /\ entered[z] = left[z]
      BY <2>1, <3>2, Alongside DEF BarrierOf
    <3>4. left[z] <= entered[y] /\ entered[y] \in Nat
      BY Alongside
    <3>5. left[x] <= entered[z] /\ n_run[x] \in Nat /\ n_run[z] \in Nat
      BY Alongside
    <3> QED
      BY <3>1, <3>2, <3>3, <3>4, <3>5
  <2>6. StopTogether'
    <3> SUFFICES ASSUME Synced, NEW x \in Z, pc'[x] = "ret", n_run'[x] < max_run PROVE FALSE
      BY <2>1 DEF StopTogether, Synced
    <3>1. pc[x] = "ret" /\ n_run[x] < max_run
      BY <2>1, <2>2
    <3> QED
      BY <2>1, <3>1 DEF StopInv, StopTogether
  <2> QED
    BY <2>3, <2>4, <2>5, <2>6 DEF StopInv
<1>11. ASSUME UNCHANGED vars PROVE StopInv'
  BY <1>1, <1>11 DEF vars, bar
<1> QED
  BY <1>3, <1>4, <1>5, <1>6, <1>7, <1>8, <1>9, <1>10, <1>11
     DEF Next, run, zyva, Finished
-----------------------------------------------------------------------------
(* Counting.                                                                *)
LEMMA OneMore == 
  ASSUME NEW m \in Nat, NEW i \in Nat
  PROVE  m * i \in Nat /\ m * (i + 1) = m * i + m
<1>1. \A a, b \in Nat : a * b \in Nat
  OBVIOUS
<1> QED
  BY <1>1

\* Without speedcheck an instance that returns has made all its runs.
LEMMA AllRuns ==
  ASSUME TypeOK, StopInv, CountInv, NEW z \in Z, pc[z] = "ret", ~cmd.speedcheck
  PROVE  sum_hist(hist[z]) = size_of_test * max_run
<1>1. stop_now = 0
  BY DEF StopInv, TypeOK
<1> QED
  BY <1>1 DEF StopInv, CountInv

LEMMA StepCount == TypeOK /\ BarrierInv /\ StopInv /\ CountInv /\ [Next]_vars => CountInv'
<1> SUFFICES ASSUME TypeOK, BarrierInv, StopInv, CountInv, [Next]_vars PROVE CountInv'
  OBVIOUS
<1> USE Parameters
<1> DEFINE S == size_of_test * max_run
<1>0. S \in Nat
  BY OneMore
<1>1. ASSUME UNCHANGED <<cmd, main, hist, n_run, total>> PROVE CountInv'
  BY <1>1 DEF CountInv, NoFatal
<1>2. ASSUME Launch PROVE CountInv'
  <2>1. UNCHANGED <<cmd, hist, n_run, total>> /\ main'[1] \in {"launch", "own"}
    BY <1>2 DEF Launch, RunUnchanged
  <2> QED
    BY <2>1 DEF CountInv, NoFatal
<1>3. ASSUME Return PROVE CountInv'
  <2>1. /\ UNCHANGED <<cmd, hist, n_run>> /\ main' = <<"join", 0>>
        /\ total' = hist[n_exe - 1] /\ pc[n_exe - 1] = "ret" /\ n_exe - 1 \in Z
    BY <1>3 DEF Return, RunUnchanged, Z
  <2>2. ~cmd.speedcheck => sum_hist(total') = S
    BY <2>1, AllRuns
  <2>3. S * (0 + 1) = S
    BY <1>0
  <2> QED
    BY <2>1, <2>2, <2>3 DEF CountInv, NoFatal, sum_hist
<1>4. ASSUME JoinZyva PROVE CountInv'
  <2> PICK k \in 0 .. n_exe - 2 :
        /\ main = <<"join", k>> /\ pc[k] = "ret"
        /\ IF Missing(hist[k], size_of_test * max_run)
           THEN main' = <<"fatal", k>> /\ UNCHANGED total
           ELSE main' = <<"join", k + 1>> /\ total' = merge_hists(total, hist[k])
    BY <1>4 DEF JoinZyva
  <2>1. UNCHANGED <<cmd, hist, n_run>> /\ k \in Z /\ k \in Nat
    BY <1>4 DEF JoinZyva, RunUnchanged, Z
  <2>2. ~Missing(hist[k], size_of_test * max_run)
    BY <2>1, AllRuns DEF Missing
  <2>3. main' = <<"join", k + 1>> /\ total' = merge_hists(total, hist[k])
    BY <2>2
  <2>4. hist[k] \in [n_pos: Nat, n_neg: Nat] /\ total \in [n_pos: Nat, n_neg: Nat]
    BY <2>1 DEF TypeOK
  <2>5. sum_hist(total') = sum_hist(total) + sum_hist(hist[k])
    BY <2>3, <2>4 DEF merge_hists, sum_hist
  <2>6. ASSUME ~cmd.speedcheck PROVE sum_hist(total') = S * ((k + 1) + 1)
    <3>1. sum_hist(total) = S * (k + 1)
      BY <2>1, <2>6 DEF CountInv
    <3>2. sum_hist(hist[k]) = S
      BY <2>1, <2>6, AllRuns
    <3>3. S * ((k + 1) + 1) = S * (k + 1) + S
      BY <1>0, <2>1, OneMore
    <3> QED
      BY <2>5, <3>1, <3>2, <3>3
  <2>7. (\A z \in Z : sum_hist(hist[z]) = size_of_test * n_run[z])'
    BY <2>1 DEF CountInv
  <2>8. (\A j \in Z : main = <<"join", j>> /\ ~cmd.speedcheck =>
           sum_hist(total) = size_of_test * max_run * (j + 1))'
    BY <2>1, <2>3, <2>6
  <2> QED
    BY <2>3, <2>7, <2>8 DEF CountInv, NoFatal
<1>5. ASSUME Conclude PROVE CountInv'
  <2>1. /\ UNCHANGED <<cmd, hist, n_run, total>> /\ main = <<"join", n_exe - 1>>
        /\ main' = <<IF Missing(total, size_of_test * max_run * n_exe)
                     THEN "fatal" ELSE "done", 0>>
        /\ n_exe - 1 \in Z
    BY <1>5 DEF Conclude, RunUnchanged, Z
  <2>2. ~cmd.speedcheck => sum_hist(total) = S * ((n_exe - 1) + 1)
    BY <2>1 DEF CountInv
  <2>3. ~Missing(total, size_of_test * max_run * n_exe)
    BY <2>2 DEF Missing
  <2>4. main' = <<"done", 0>>
    BY <2>1, <2>3
  <2> QED
    BY <2>1, <2>4 DEF CountInv, NoFatal
<1>6. ASSUME NEW z \in Z, PbWait(z) \/ Top(z) \/ Check(z) \/ Place(z) \/ LaunchThreads(z)
      PROVE  CountInv'
  BY <1>1, <1>6 DEF PbWait, Top, Check, Place, LaunchThreads, MainUnchanged, RunUnchanged
<1>7. ASSUME NEW z \in Z, NEW p \in Ids, Thread(z, p) PROVE CountInv'
  BY <1>1, <1>7 DEF Thread, StartThread, EndThread, MainUnchanged
<1>8. ASSUME NEW z \in Z, JoinThreads(z) PROVE CountInv'
  <2>1. /\ UNCHANGED <<cmd, main, total>>
        /\ n_run' = [n_run EXCEPT ![z] = @ + 1]
    BY <1>8 DEF JoinThreads, MainUnchanged
  <2> PICK pos \in 0 .. size_of_test :
        hist' = [hist EXCEPT ![z] =
                   merge_hists(@, [n_pos |-> pos, n_neg |-> size_of_test - pos])]
    BY <1>8 DEF JoinThreads
  <2>2. /\ hist[z] \in [n_pos: Nat, n_neg: Nat] /\ n_run[z] \in Nat
        /\ hist'[z] = merge_hists(hist[z], [n_pos |-> pos, n_neg |-> size_of_test - pos])
        /\ n_run'[z] = n_run[z] + 1
    BY <2>1 DEF TypeOK
  <2>3. sum_hist(hist'[z]) = sum_hist(hist[z]) + size_of_test
    BY <2>2 DEF sum_hist, merge_hists
  <2>4. sum_hist(hist[z]) = size_of_test * n_run[z]
    BY DEF CountInv
  <2>5. size_of_test * (n_run[z] + 1) = size_of_test * n_run[z] + size_of_test
    BY <2>2, OneMore
  <2>6. sum_hist(hist'[z]) = size_of_test * n_run'[z]
    BY <2>2, <2>3, <2>4, <2>5
  <2>7. \A y \in Z \ {z} : hist'[y] = hist[y] /\ n_run'[y] = n_run[y]
    BY <2>1 DEF TypeOK
  <2>8. \A y \in Z : sum_hist(hist'[y]) = size_of_test * n_run'[y]
    BY <2>6, <2>7 DEF CountInv
  <2> QED
    BY <2>1, <2>8 DEF CountInv, NoFatal
<1>9. ASSUME UNCHANGED vars PROVE CountInv'
  BY <1>1, <1>9 DEF vars
<1> QED
  BY <1>2, <1>3, <1>4, <1>5, <1>6, <1>7, <1>8, <1>9 DEF Next, run, zyva, Finished
LEMMA StepSum == TypeOK /\ SumInv /\ [Next]_vars => SumInv'
<1> SUFFICES ASSUME TypeOK, SumInv, [Next]_vars PROVE SumInv'
  OBVIOUS
<1> USE Parameters
<1>0. /\ \A k \in Z : k \in Nat /\ k <= n_exe - 1 /\ \A j \in 0 .. k - 1 : j \in Z
      /\ 0 \in Z /\ n_exe - 1 \in Z
  BY DEF Z
\* The histograms of the instances that are over do not change.
<1>1. ASSUME UNCHANGED <<main, total>>,
             \A y \in Z : pc[y] = "ret" => pc'[y] = "ret" /\ hist'[y] = hist[y]
      PROVE  SumInv'
  <2> SUFFICES ASSUME NEW k \in Z, main = <<"join", k>> \/ (main[1] = "done" /\ k = n_exe - 1)
               PROVE  /\ pc'[n_exe - 1] = "ret" /\ \A j \in 0 .. k - 1 : pc'[j] = "ret"
                      /\ \E s \in [Z -> [n_pos: 0 .. total.n_pos, n_neg: 0 .. total.n_neg]] :
                           Adds(s, k)'
    BY <1>1 DEF SumInv, Adds
  <2>1. /\ pc[n_exe - 1] = "ret" /\ \A j \in 0 .. k - 1 : pc[j] = "ret"
        /\ \E s \in [Z -> [n_pos: 0 .. total.n_pos, n_neg: 0 .. total.n_neg]] : Adds(s, k)
    BY DEF SumInv
  <2>2. /\ hist'[n_exe - 1] = hist[n_exe - 1] /\ pc'[n_exe - 1] = "ret"
        /\ \A j \in 0 .. k - 1 : hist'[j] = hist[j] /\ pc'[j] = "ret"
    BY <1>0, <1>1, <2>1
  <2> QED
    BY <1>1, <2>1, <2>2 DEF Adds, merge_hists
<1>2. ASSUME Launch PROVE SumInv'
  <2> PICK k \in Z : /\ main = <<"launch", k>> /\ main'[1] \in {"launch", "own"}
    BY <1>2 DEF Launch
  <2> QED
    BY DEF SumInv
<1>3. ASSUME Return PROVE SumInv'
  <2>1. /\ main' = <<"join", 0>> /\ total' = hist[n_exe - 1] /\ UNCHANGED <<hist, pc>>
        /\ pc[n_exe - 1] = "ret"
    BY <1>3 DEF Return, RunUnchanged
  <2> PICK v : v = total'
    OBVIOUS
  <2> DEFINE s == [z \in Z |-> v]
  <2>2. v \in [n_pos: Nat, n_neg: Nat]
    BY <1>0, <2>1 DEF TypeOK
  <2>3. s \in [Z -> [n_pos: 0 .. v.n_pos, n_neg: 0 .. v.n_neg]]
    BY <2>2
  <2>4. s[0] = v /\ hist'[n_exe - 1] = v /\ \A j \in 0 .. -1 : FALSE
    BY <1>0, <2>1
  <2> HIDE DEF s
  <2>5. Adds(s, 0)'
    BY <2>4 DEF Adds
  <2>6. \A k \in Z : main' = <<"join", k>> \/ (main'[1] = "done" /\ k = n_exe - 1) => k = 0
    BY <2>1
  <2>7. pc'[n_exe - 1] = "ret" /\ \A j \in 0 .. -1 : pc'[j] = "ret"
    BY <2>1
  <2> QED
    BY <2>3, <2>5, <2>6, <2>7 DEF SumInv
<1>4. ASSUME JoinZyva PROVE SumInv'
  <2> PICK k \in 0 .. n_exe - 2 :
        /\ main = <<"join", k>> /\ pc[k] = "ret" /\ UNCHANGED <<hist, pc>>
        /\ \/ main' = <<"fatal", k>>
           \/ main' = <<"join", k + 1>> /\ total' = merge_hists(total, hist[k])
    BY <1>4 DEF JoinZyva, RunUnchanged
  <2>1. k \in Z /\ k + 1 \in Z
    BY DEF Z
  <2>2. CASE main' = <<"fatal", k>>
    BY <2>2 DEF SumInv
  <2>3. CASE main' = <<"join", k + 1>> /\ total' = merge_hists(total, hist[k])
    <3>1. /\ pc[n_exe - 1] = "ret" /\ \A j \in 0 .. k - 1 : pc[j] = "ret"
          /\ \E s \in [Z -> [n_pos: 0 .. total.n_pos, n_neg: 0 .. total.n_neg]] : Adds(s, k)
      BY <2>1 DEF SumInv
    <3> PICK s \in [Z -> [n_pos: 0 .. total.n_pos, n_neg: 0 .. total.n_neg]] : Adds(s, k)
      BY <3>1
    <3> PICK v : v = total'
      OBVIOUS
    <3> DEFINE t == [s EXCEPT ![k + 1] = v]
    <3>2. total \in [n_pos: Nat, n_neg: Nat] /\ hist[k] \in [n_pos: Nat, n_neg: Nat]
      BY <2>1 DEF TypeOK
    <3>3. /\ v = [n_pos |-> total.n_pos + hist[k].n_pos, n_neg |-> total.n_neg + hist[k].n_neg]
          /\ v \in [n_pos: Nat, n_neg: Nat]
          /\ v.n_pos >= total.n_pos /\ v.n_neg >= total.n_neg
      BY <2>3, <3>2 DEF merge_hists
    <3>4. [n_pos: 0 .. total.n_pos, n_neg: 0 .. total.n_neg]
            \subseteq [n_pos: 0 .. v.n_pos, n_neg: 0 .. v.n_neg]
      BY <3>2, <3>3
    <3>5. v \in [n_pos: 0 .. v.n_pos, n_neg: 0 .. v.n_neg]
      BY <3>3
    <3>6. t \in [Z -> [n_pos: 0 .. v.n_pos, n_neg: 0 .. v.n_neg]]
      BY <3>4, <3>5
    <3>7. /\ \A j \in 0 .. k : t[j] = s[j] /\ j \in Z
          /\ t[k + 1] = v
      BY <1>0, <2>1
    <3>8. s[0] = hist[n_exe - 1] /\ s[k] = total
          /\ \A j \in 0 .. k - 1 : s[j + 1] = merge_hists(s[j], hist[j])
      BY DEF Adds
    <3>9. ASSUME NEW j \in 0 .. (k + 1) - 1 PROVE t[j + 1] = merge_hists(t[j], hist[j])
      <4>1. CASE j = k
        BY <2>3, <3>7, <3>8, <4>1
      <4>2. CASE j # k
        <5>1. j \in 0 .. k - 1 /\ j + 1 \in 0 .. k /\ j \in 0 .. k
          BY <4>2
        <5> QED
          BY <3>7, <3>8, <5>1
      <4> QED
        BY <4>1, <4>2
    <3>10. t[0] = hist[n_exe - 1]
      BY <3>7, <3>8
    <3>11. Adds(t, k + 1)'
      <4> HIDE DEF t
      <4>1. \A j \in 0 .. (k + 1) - 1 : t[j + 1] = merge_hists(t[j], hist'[j])
        BY <3>9
      <4> QED
        BY <3>7, <3>10, <4>1 DEF Adds, merge_hists
    <3>12. pc'[n_exe - 1] = "ret" /\ \A j \in 0 .. (k + 1) - 1 : pc'[j] = "ret"
      <4> SUFFICES ASSUME NEW j \in 0 .. (k + 1) - 1 PROVE pc[j] = "ret"
        BY <3>1
      <4>1. j = k \/ j \in 0 .. k - 1
        OBVIOUS
      <4> QED
        BY <3>1, <4>1
    <3>13. \A j \in Z : main' = <<"join", j>> \/ (main'[1] = "done" /\ j = n_exe - 1) => j = k + 1
      BY <2>3
    <3> HIDE DEF t
    <3> QED
      BY <3>6, <3>11, <3>12, <3>13 DEF SumInv
  <2> QED
    BY <2>2, <2>3
<1>5. ASSUME Conclude PROVE SumInv'
  <2>1. /\ main = <<"join", n_exe - 1>> /\ main'[1] \in {"fatal", "done"}
        /\ UNCHANGED <<hist, pc, total>>
        /\ main' = <<main'[1], 0>>
    BY <1>5 DEF Conclude, RunUnchanged
  <2>2. /\ pc[n_exe - 1] = "ret" /\ \A j \in 0 .. (n_exe - 1) - 1 : pc[j] = "ret"
        /\ \E s \in [Z -> [n_pos: 0 .. total.n_pos, n_neg: 0 .. total.n_neg]] :
             Adds(s, n_exe - 1)
    BY <1>0, <2>1 DEF SumInv
  <2> QED
    BY <2>1, <2>2 DEF SumInv, Adds
<1>6. ASSUME NEW z \in Z, zyva(z) PROVE SumInv'
  <2>1. /\ UNCHANGED <<main, total>> /\ pc[z] # "ret"
        /\ \A y \in Z \ {z} : pc'[y] = pc[y] /\ hist'[y] = hist[y]
    <3>1. ASSUME PbWait(z) \/ Top(z) \/ Check(z) \/ Place(z) \/ LaunchThreads(z)
          PROVE  /\ UNCHANGED <<main, total, hist>> /\ pc[z] # "ret"
                 /\ \A y \in Z \ {z} : pc'[y] = pc[y]
      BY <3>1 DEF PbWait, Top, Check, Place, LaunchThreads, MainUnchanged, RunUnchanged,
                  Step, TypeOK
    <3>2. ASSUME JoinThreads(z)
          PROVE  /\ UNCHANGED <<main, total>> /\ pc[z] # "ret"
                 /\ \A y \in Z \ {z} : pc'[y] = pc[y] /\ hist'[y] = hist[y]
      BY <3>2 DEF JoinThreads, MainUnchanged, Step, TypeOK
    <3> QED
      BY <1>6, <3>1, <3>2 DEF zyva
  <2> QED
    BY <1>1, <2>1
<1>7. ASSUME NEW z \in Z, NEW p \in Ids, Thread(z, p) PROVE SumInv'
  BY <1>1, <1>7 DEF Thread, StartThread, EndThread, MainUnchanged
<1>8. ASSUME UNCHANGED vars PROVE SumInv'
  BY <1>1, <1>8 DEF vars
<1> QED
  BY <1>2, <1>3, <1>4, <1>5, <1>6, <1>7, <1>8 DEF Next, run, Finished
-----------------------------------------------------------------------------
(* Processors.                                                              *)
LEMMA StepPlace == TypeOK /\ BarrierInv /\ PlaceInv /\ [Next]_vars => PlaceInv'
<1> SUFFICES ASSUME TypeOK, BarrierInv, PlaceInv, [Next]_vars PROVE PlaceInv'
  OBVIOUS
<1> USE Parameters
\* A step of z outside of its placed part, that changes no processor.
<1>1. ASSUME NEW z \in Z, UNCHANGED <<cmd, aff_cpus, n_run, on, th>>,
             \A y \in Z \ {z} : pc'[y] = pc[y], pc[z] # "join",
             pc'[z] \in {"enter2", "wait2", "reinit", "join"} /\ cmd.aff_mode = "scan"
               => pc[z] \in {"enter2", "wait2"}
      PROVE  PlaceInv'
  <2>1. (cmd.aff_mode # "scan" => Rearranged)'
    BY <1>1 DEF PlaceInv, Rearranged, Array
  <2>2. (cmd.aff_mode = "scan" => \A y \in Z : pc[y] \in {"enter2", "wait2", "reinit", "join"} =>
           \A p \in Ids : aff_cpus[Slot(y, p)] = Row(y)[Slot(y, p)])'
    BY <1>1 DEF PlaceInv, Row
  <2>3. (\A y \in Z : \A p \in Ids :
           /\ pc[y] # "join" => th[y][p] = "none"
           /\ th[y][p] \in Busy => on[y][p] = aff_cpus[Slot(y, p)])'
    BY <1>1 DEF PlaceInv, Busy
  <2> QED
    BY <2>1, <2>2, <2>3 DEF PlaceInv
<1>2. ASSUME UNCHANGED <<cmd, aff_cpus, n_run, on, th, pc>> PROVE PlaceInv'
  BY <1>2 DEF PlaceInv, Row, Busy, Rearranged, Array
<1>3. ASSUME Launch PROVE PlaceInv'
  <2> PICK k \in Z : Step(k, "none", "start") /\ UNCHANGED <<cmd, aff_cpus, n_run, on, th>>
    BY <1>3 DEF Launch, RunUnchanged
  <2>1. pc[k] = "none" /\ pc'[k] = "start" /\ \A y \in Z \ {k} : pc'[y] = pc[y]
    BY DEF Step, TypeOK
  <2> QED
    BY <1>1, <2>1
<1>4. ASSUME Return \/ JoinZyva \/ Conclude PROVE PlaceInv'
  BY <1>2, <1>4 DEF Return, JoinZyva, Conclude, RunUnchanged
<1>5. ASSUME NEW z \in Z, PbWait(z) PROVE PlaceInv'
  <2>1. UNCHANGED <<cmd, aff_cpus, n_run, on, th>>
    BY <1>5 DEF PbWait, MainUnchanged, RunUnchanged
  <2>2. \A y \in Z \ {z} : pc'[y] = pc[y]
    BY <1>5 DEF PbWait, Step, TypeOK
  <2>3. /\ pc[z] # "join" /\ pc'[z] \notin {"enter2", "join"}
        /\ pc'[z] = "wait2" => pc[z] = "enter2"
        /\ pc'[z] = "reinit" => pc[z] = "wait2"
    BY <1>5 DEF PbWait, Step, TypeOK
  <2> QED
    BY <1>1, <2>1, <2>2, <2>3
<1>6. ASSUME NEW z \in Z, Top(z) \/ Check(z) PROVE PlaceInv'
  <2>1. UNCHANGED <<cmd, aff_cpus, n_run, on, th>>
    BY <1>6 DEF Top, Check, MainUnchanged, RunUnchanged
  <2>2. \A y \in Z \ {z} : pc'[y] = pc[y]
    BY <1>6 DEF Top, Check, Step, TypeOK
  <2>3. /\ pc[z] # "join" /\ pc'[z] \in {"ret", "enter1", "reinit", "place"}
        /\ pc'[z] = "reinit" => ~Synced
    BY <1>6 DEF Top, Check, Step, TypeOK
  <2> QED
    BY <1>1, <2>1, <2>2, <2>3 DEF Synced
<1>7. ASSUME NEW z \in Z, Place(z) PROVE PlaceInv'
  <2>1. UNCHANGED <<cmd, n_run, on, th>>
    BY <1>7 DEF Place, MainUnchanged, RunUnchanged
  <2>2. pc[z] = "place" /\ pc'[z] = "enter2" /\ \A y \in Z \ {z} : pc'[y] = pc[y]
    BY <1>7 DEF Place, Step, TypeOK
  <2>3. CASE cmd.aff_mode = "random" /\ z = 0
    <3>1. Shuffle
      BY <1>7, <2>3 DEF Place
    <3>2. Rearranged'
      BY <2>1, <2>3, <3>1, Shuffled DEF PlaceInv, Rearranged, Array
    \* No instance has test threads while instance 0 is between the waits.
    <3>3. \A y \in Z : pc[y] # "join"
      <4> SUFFICES ASSUME NEW y \in Z, pc[y] = "join" PROVE FALSE
        OBVIOUS
      <4>1. left[z] = 2 * n_run[z] + 2 /\ entered[z] = left[z] /\ Synced
        BY <2>2, Alongside DEF BarrierOf
      <4>2. left[y] = 2 * n_run[y] + 3 /\ entered[y] = left[y]
        BY <4>1, Alongside DEF BarrierOf
      <4> QED
        BY <4>1, <4>2, Alongside
    <3>4. \A y \in Z : \A p \in Ids : th[y][p] = "none"
      BY <3>3 DEF PlaceInv
    <3> QED
      BY <2>1, <2>3, <3>2, <3>4 DEF PlaceInv, Busy
  <2>4. CASE cmd.aff_mode = "random" /\ z # 0
    <3>1. UNCHANGED aff_cpus
      BY <1>7, <2>4 DEF Place
    <3> QED
      BY <1>1, <2>1, <2>2, <2>4, <3>1
  <2>5. CASE cmd.aff_mode = "scan"
    <3>1. aff_cpus' = [s \in Slots |-> IF s \in Slice(z) THEN Row(z)[s] ELSE aff_cpus[s]]
      BY <1>7, <2>5 DEF Place, Row
    <3>2. \A p \in Ids : Slot(z, p) \in Slice(z) /\ Slot(z, p) \in Slots
      BY SlotsApart DEF Slice
    <3>3. \A y \in Z \ {z} : \A p \in Ids : Slot(y, p) \notin Slice(z) /\ Slot(y, p) \in Slots
      BY SlotsApart DEF Slice
    <3>4. \A p \in Ids : aff_cpus'[Slot(z, p)] = Row(z)[Slot(z, p)]
      BY <3>1, <3>2
    <3>5. \A y \in Z \ {z} : \A p \in Ids : aff_cpus'[Slot(y, p)] = aff_cpus[Slot(y, p)]
      BY <3>1, <3>3
    <3>6. \A y \in Z : Row(y)' = Row(y)
      BY <2>1 DEF Row
    <3>7. (\A y \in Z : pc[y] \in {"enter2", "wait2", "reinit", "join"} =>
             \A p \in Ids : aff_cpus[Slot(y, p)] = Row(y)[Slot(y, p)])'
      <4> SUFFICES ASSUME NEW y \in Z, pc'[y] \in {"enter2", "wait2", "reinit", "join"},
                          NEW p \in Ids
                   PROVE  aff_cpus'[Slot(y, p)] = Row(y)[Slot(y, p)]
        BY <3>6
      <4>1. CASE y = z
        BY <3>4, <4>1
      <4>2. CASE y # z
        BY <2>2, <2>5, <3>5, <4>2 DEF PlaceInv
      <4> QED
        BY <4>1, <4>2
    <3>8. (\A y \in Z : \A p \in Ids :
             /\ pc[y] # "join" => th[y][p] = "none"
             /\ th[y][p] \in Busy => on[y][p] = aff_cpus[Slot(y, p)])'
      BY <2>1, <2>2, <3>5 DEF PlaceInv, Busy
    <3> QED
      BY <2>1, <2>5, <3>7, <3>8 DEF PlaceInv
  <2> QED
    BY <1>7, <2>3, <2>4, <2>5 DEF Place
<1>8. ASSUME NEW z \in Z, LaunchThreads(z) PROVE PlaceInv'
  <2>1. UNCHANGED <<cmd, aff_cpus, n_run, on>>
    BY <1>8 DEF LaunchThreads, MainUnchanged
  <2>2. /\ pc[z] = "reinit" /\ pc'[z] = "join" /\ \A y \in Z \ {z} : pc'[y] = pc[y]
        /\ \A p \in Ids : th'[z][p] = "launched" /\ \A y \in Z \ {z} : th'[y] = th[y]
    BY <1>8 DEF LaunchThreads, Step, TypeOK
  <2>3. (cmd.aff_mode # "scan" => Rearranged)'
    BY <2>1 DEF PlaceInv, Rearranged, Array
  <2>4. (cmd.aff_mode = "scan" => \A y \in Z : pc[y] \in {"enter2", "wait2", "reinit", "join"} =>
           \A p \in Ids : aff_cpus[Slot(y, p)] = Row(y)[Slot(y, p)])'
    BY <2>1, <2>2 DEF PlaceInv, Row
  <2>5. (\A y \in Z : \A p \in Ids :
           /\ pc[y] # "join" => th[y][p] = "none"
           /\ th[y][p] \in Busy => on[y][p] = aff_cpus[Slot(y, p)])'
    BY <2>1, <2>2 DEF PlaceInv, Busy
  <2> QED
    BY <2>3, <2>4, <2>5 DEF PlaceInv
<1>9. ASSUME NEW z \in Z, NEW p \in Ids, Thread(z, p) PROVE PlaceInv'
  <2>1. UNCHANGED <<cmd, aff_cpus, n_run, pc>>
    BY <1>9 DEF Thread, StartThread, EndThread, MainUnchanged
  <2>2. /\ th[z][p] \in {"launched", "running"} /\ th'[z][p] \in Busy
        /\ on'[z][p] = IF th[z][p] = "launched" THEN aff_cpus[Slot(z, p)] ELSE on[z][p]
        /\ \A y \in Z : \A q \in Ids : y # z \/ q # p =>
             th'[y][q] = th[y][q] /\ on'[y][q] = on[y][q]
    <3>1. CASE StartThread(z, p)
      BY <3>1 DEF StartThread, TypeOK, Busy
    <3>2. CASE EndThread(z, p)
      BY <3>2 DEF EndThread, TypeOK, Busy
    <3> QED
      BY <1>9, <3>1, <3>2 DEF Thread
  <2>3. pc[z] = "join" /\ on'[z][p] = aff_cpus[Slot(z, p)]
    BY <2>2 DEF PlaceInv, Busy
  <2>4. (\A y \in Z : \A q \in Ids :
           /\ pc[y] # "join" => th[y][q] = "none"
           /\ th[y][q] \in Busy => on[y][q] = aff_cpus[Slot(y, q)])'
    BY <2>1, <2>2, <2>3 DEF PlaceInv, Busy
  <2> QED
    BY <2>1, <2>4 DEF PlaceInv, Row, Rearranged, Array
<1>10. ASSUME NEW z \in Z, JoinThreads(z) PROVE PlaceInv'
  <2>1. UNCHANGED <<cmd, aff_cpus, on>>
    BY <1>10 DEF JoinThreads, MainUnchanged
  <2>2. /\ pc'[z] = "top" /\ \A p \in Ids : th'[z][p] = "none"
        /\ \A y \in Z \ {z} : pc'[y] = pc[y] /\ n_run'[y] = n_run[y] /\ th'[y] = th[y]
    BY <1>10 DEF JoinThreads, Step, TypeOK
  <2>3. (cmd.aff_mode # "scan" => Rearranged)'
    BY <2>1 DEF PlaceInv, Rearranged, Array
  <2>4. (cmd.aff_mode = "scan" => \A y \in Z : pc[y] \in {"enter2", "wait2", "reinit", "join"} =>
           \A p \in Ids : aff_cpus[Slot(y, p)] = Row(y)[Slot(y, p)])'
    BY <2>1, <2>2 DEF PlaceInv, Row
  <2>5. (\A y \in Z : \A p \in Ids :
           /\ pc[y] # "join" => th[y][p] = "none"
           /\ th[y][p] \in Busy => on[y][p] = aff_cpus[Slot(y, p)])'
    BY <2>1, <2>2 DEF PlaceInv, Busy
  <2> QED
    BY <2>3, <2>4, <2>5 DEF PlaceInv
<1>11. ASSUME UNCHANGED vars PROVE PlaceInv'
  BY <1>2, <1>11 DEF vars
<1> QED
  BY <1>3, <1>4, <1>5, <1>6, <1>7, <1>8, <1>9, <1>10, <1>11
     DEF Next, run, zyva, Finished

\* Two instances that have test threads are in the same run: in mode scan their
\* threads have entries of the same row.
LEMMA ScanApart ==
  ASSUME IInv, cmd.aff_mode = "scan", NEW y \in Z, NEW z \in Z, NEW p \in Ids, NEW q \in Ids,
         th[y][p] \in Busy, th[z][q] \in Busy, on[y][p] = on[z][q], on[y][p] >= 0
  PROVE  y = z /\ p = q
<1> USE Parameters
<1>1. TypeOK /\ BarrierInv /\ PlaceInv
  BY DEF IInv
<1>2. pc[y] = "join" /\ pc[z] = "join"
  BY <1>1 DEF PlaceInv, Busy
<1>3. on[y][p] = aff_cpus[Slot(y, p)] /\ on[z][q] = aff_cpus[Slot(z, q)]
  BY <1>1 DEF PlaceInv
<1>4. Slot(y, p) \in Slots /\ Slot(z, q) \in Slots
  BY SlotsApart
<1>5. /\ left[y] = 2 * n_run[y] + 3 /\ entered[y] = left[y]
      /\ left[z] = 2 * n_run[z] + 3 /\ entered[z] = left[z]
  BY <1>1, <1>2, Alongside DEF BarrierOf, Synced
<1>6. n_run[y] = n_run[z]
  BY <1>1, <1>5, Alongside
<1>7. Row(y) = Row(z)
  BY <1>6 DEF Row
<1>8. Row(y)[Slot(y, p)] = Row(y)[Slot(z, q)] /\ Row(y)[Slot(y, p)] >= 0
  <2>1. /\ aff_cpus[Slot(y, p)] = Row(y)[Slot(y, p)]
        /\ aff_cpus[Slot(z, q)] = Row(z)[Slot(z, q)]
    BY <1>1, <1>2 DEF PlaceInv
  <2> QED
    BY <1>3, <1>7, <2>1
<1>9. Slot(y, p) = Slot(z, q)
  BY <1>1, <1>4, <1>8, Rows
<1> QED
  BY <1>9, SlotsApart

\* In the other modes each thread has an entry of the given array to itself.
LEMMA OwnEntry ==
  ASSUME IInv, cmd.aff_mode # "scan", NEW c \in Int
  PROVE  \E h \in [Bound(c) -> {s \in Array : cmd.array[s] = c}] :
           \A t, u \in Bound(c) : h[t] = h[u] => t = u
<1>1. TypeOK /\ PlaceInv
  BY DEF IInv
<1> PICK f \in [Array -> Array] :
      Rearranges(f) /\ \A s \in Array : aff_cpus[s] = cmd.array[f[s]]
  BY <1>1 DEF PlaceInv, Rearranged
<1> DEFINE At(t) == Slot(t[1], t[2])
           h == [t \in Bound(c) |-> f[At(t)]]
<1>2. ASSUME NEW t \in Bound(c)
      PROVE  At(t) \in Array /\ aff_cpus[At(t)] = c /\ f[At(t)] \in {s \in Array : cmd.array[s] = c}
  <2>1. t[1] \in Z /\ t[2] \in Ids /\ th[t[1]][t[2]] \in Busy /\ on[t[1]][t[2]] = c
    BY DEF Bound
  <2>2. At(t) \in Array
    BY <1>1, <2>1, SlotsApart DEF TypeOK
  <2>3. aff_cpus[At(t)] = c
    BY <1>1, <2>1 DEF PlaceInv
  <2> QED
    BY <2>2, <2>3
<1>3. ASSUME NEW t \in Bound(c), NEW u \in Bound(c), f[At(t)] = f[At(u)] PROVE t = u
  <2>1. At(t) = At(u)
    BY <1>2, <1>3 DEF Rearranges
  <2>2. t \in Z \X Ids /\ u \in Z \X Ids
    BY DEF Bound
  <2>3. t[1] = u[1] /\ t[2] = u[2]
    BY <2>1, <2>2, SlotsApart
  <2> QED
    BY <2>2, <2>3
<1>4. h \in [Bound(c) -> {s \in Array : cmd.array[s] = c}]
  BY <1>2
<1>5. \A t, u \in Bound(c) : h[t] = h[u] => t = u
  BY <1>3
<1> QED
  BY <1>4, <1>5

LEMMA IInvOwnProcessor == IInv => OwnProcessor
<1> SUFFICES ASSUME IInv, NEW z \in Z, NEW p \in Ids, on[z][p] >= 0
             PROVE  Cardinality(Bound(on[z][p])) <=
                      IF cmd.aff_mode = "scan" THEN 1
                      ELSE Cardinality({s \in DOMAIN cmd.array : cmd.array[s] = on[z][p]})
  BY DEF OwnProcessor
<1> DEFINE c == on[z][p]
<1>1. c \in Int /\ c >= 0 /\ IsFiniteSet(Array)
  BY DEF IInv, TypeOK
<1> HIDE DEF c
<1>2. CASE cmd.aff_mode = "scan"
  <2>1. \A t, u \in Bound(c) : t = u
    <3> SUFFICES ASSUME NEW t \in Bound(c), NEW u \in Bound(c) PROVE t = u
      OBVIOUS
    <3>1. t \in Z \X Ids /\ u \in Z \X Ids
      BY DEF Bound
    <3>2. /\ th[t[1]][t[2]] \in Busy /\ on[t[1]][t[2]] = c
          /\ th[u[1]][u[2]] \in Busy /\ on[u[1]][u[2]] = c
      BY DEF Bound
    <3>3. t[1] = u[1] /\ t[2] = u[2]
      BY <1>1, <1>2, <3>1, <3>2, ScanApart
    <3> QED
      BY <3>1, <3>3
  <2>2. Bound(c) = {} \/ \E t : Bound(c) = {t}
    BY <2>1
  <2>3. Cardinality(Bound(c)) <= 1
    <3>1. CASE Bound(c) = {}
      BY <3>1, FS_EmptySet
    <3>2. CASE \E t : Bound(c) = {t}
      BY <3>2, FS_Singleton
    <3> QED
      BY <2>2, <3>1, <3>2
  <2> QED
    BY <1>2, <2>3 DEF c
<1>3. CASE cmd.aff_mode # "scan"
  <2> DEFINE T == {s \in Array : cmd.array[s] = c}
  <2>1. IsFiniteSet(T)
    BY <1>1, FS_Subset
  <2>2. PICK h \in [Bound(c) -> T] : \A t, u \in Bound(c) : h[t] = h[u] => t = u
    BY <1>1, <1>3, OwnEntry
  <2>3. h \in Injection(Bound(c), T)
    BY <2>2 DEF Injection, IsInjective
  <2>4. Cardinality(Bound(c)) <= Cardinality(T)
    <3> HIDE DEF T
    <3> QED
      BY <2>1, <2>3, FS_Injection
  <2> QED
    BY <1>3, <2>4 DEF c, Array
<1> QED
  BY <1>2, <1>3
-----------------------------------------------------------------------------
LEMMA InitIInv == Init => IInv
<1> SUFFICES ASSUME Init PROVE IInv
  OBVIOUS
<1> USE Parameters
<1>1. 0 \in Z /\ 0 \in Ids /\ 0 \in Slots
  <2>1. 0 * N + N <= n_exe * N /\ n_exe * N \in Int
    BY Multiples
  <2> QED
    BY <2>1 DEF Z, Ids, Slots
<1>2. TypeOK
  <2>1. /\ cmd.aff_mode \in {"random", "scan", "other"} /\ cmd.speedcheck \in BOOLEAN
        /\ \/ cmd.aff_mode = "random" /\ \E l \in Cpus : cmd.array = Repeated(l)
           \/ cmd.aff_mode # "random" /\ cmd.array \in Filled
    BY DEF Init
  <2>2. /\ cmd.array \in [Array -> Int] /\ IsFiniteSet(Array) /\ Slots \subseteq Array
        /\ cmd.aff_mode # "random" => Array = Slots
    <3>1. CASE cmd.aff_mode = "random"
      BY <2>1, <3>1, RepeatedType DEF Array
    <3>2. CASE cmd.aff_mode # "random"
      <4>1. cmd.array \in [Slots -> Int]
        BY <2>1, <3>2, ZyvaAssumption
      <4>2. IsFiniteSet(Slots)
        BY FS_Interval DEF Slots
      <4> QED
        BY <4>1, <4>2 DEF Array
    <3> QED
      BY <3>1, <3>2
  <2>3. aff_cpus = cmd.array
    BY DEF Init
  <2> QED
    BY <1>1, <2>1, <2>2, <2>3 DEF Init, Bar!Init, TypeOK, Pcs, Empty
<1>3. BarrierInv
  BY DEF Init, Bar!Init, BarrierInv, BarrierOf
<1>4. StopInv
  BY DEF Init, StopInv, StopTogether
<1>5. CountInv
  <2>1. size_of_test * 0 = 0
    OBVIOUS
  <2> QED
    BY <2>1 DEF Init, CountInv, NoFatal, sum_hist, Empty
<1>6. PlaceInv
  <2> DEFINE f == [s \in Array |-> s]
  <2>1. f \in [Array -> Array] /\ Rearranges(f) /\ \A s \in Array : aff_cpus[s] = cmd.array[f[s]]
    BY DEF Init, Rearranges
  <2>2. Rearranged
    BY <2>1 DEF Rearranged
  <2> QED
    BY <2>2 DEF Init, PlaceInv, Busy
<1>7. SumInv
  BY DEF Init, SumInv
<1> QED
  BY <1>2, <1>3, <1>4, <1>5, <1>6, <1>7 DEF IInv

\* The inductive invariant of run() and zyva.
THEOREM InvariantTheorem == Spec => []IInv
<1>1. IInv /\ [Next]_vars => IInv'
  BY StepType, StepBarrier, StepStop, StepCount, StepSum, StepPlace DEF IInv
<1> QED
  BY InitIInv, <1>1, PTL DEF Spec

\* The variables of run() and of the instances keep their types.
THEOREM TypeCorrect == Spec => []TypeOK
<1>1. IInv => TypeOK
  BY DEF IInv
<1> QED
  BY <1>1, InvariantTheorem, PTL

\* No outcome is lost, for any number of instances and of runs, whether the
\* instances stop early or not: the check "sum_hist" of run() never fires, and
\* its total is the sum of the histograms.
THEOREM Harmless == Spec => []NoOutcomeLost
<1>1. IInv => NoOutcomeLost
  <2>1. n_exe - 1 \in Z
    BY Parameters DEF Z
  <2> QED
    BY <2>1 DEF IInv, CountInv, SumInv, NoOutcomeLost
<1> QED
  BY <1>1, InvariantTheorem, PTL

\* With affinity random or scan the instances of run() leave the loop of zyva
\* at the same run.
THEOREM NoneLeftBehind == Spec => []StopTogether
<1>1. IInv => StopTogether
  BY DEF IInv, StopInv
<1> QED
  BY <1>1, InvariantTheorem, PTL

\* A processor never runs more test threads of run() than the array had entries
\* for it before the first run, whatever the shuffles, and one at most in mode
\* scan, whatever the rows of cpu_scan bind.
THEOREM Apart == Spec => []OwnProcessor
<1> QED
  BY IInvOwnProcessor, InvariantTheorem, PTL

\* No processor is in two entries of the array.
Roomy == \A s, u \in Array : cmd.array[s] = cmd.array[u] => s = u

\* A list of different processors, as many as threads at least, gives such an
\* array to mode random.
LEMMA RoomyList ==
  ASSUME NEW l \in Cpus, Len(l) >= N * n_exe, \A i, j \in 1 .. Len(l) : l[i] = l[j] => i = j
  PROVE  \A s, u \in DOMAIN Repeated(l) : Repeated(l)[s] = Repeated(l)[u] => s = u
<1>1. Len(l) \in Nat /\ Len(l) > 0 /\ N * n_exe \in Nat
  BY ZyvaAssumption, Parameters
<1>2. Larger(Len(l), N * n_exe) - 1 = Len(l) - 1
  BY <1>1 DEF Larger
<1>3. \A k \in 0 .. Len(l) - 1 : k % Len(l) = k /\ k + 1 \in 1 .. Len(l)
  BY <1>1
<1>4. Repeated(l) = [k \in 0 .. Len(l) - 1 |-> l[(k % Len(l)) + 1]]
  BY <1>2 DEF Repeated
<1>5. \A k \in 0 .. Len(l) - 1 : Repeated(l)[k] = l[k + 1]
  BY <1>3, <1>4
<1> SUFFICES ASSUME NEW s \in 0 .. Len(l) - 1, NEW u \in 0 .. Len(l) - 1, l[s + 1] = l[u + 1]
             PROVE  s = u
  BY <1>4, <1>5
<1>6. s + 1 = u + 1
  BY <1>3
<1> QED
  BY <1>1, <1>6

\* Test threads of run() that run at the same time are on different processors
\* when the array has different ones, and always in mode scan.
Different ==
  \A y, z \in Z : \A p, q \in Ids :
    /\ cmd.aff_mode = "scan" \/ Roomy
    /\ th[y][p] \in Busy /\ th[z][q] \in Busy
    /\ on[y][p] = on[z][q] /\ on[y][p] >= 0
    => y = z /\ p = q

\* No two test threads of run() share a processor when the list has enough of
\* them (RoomyList), nor in mode scan.
THEOREM Alone == Spec => []Different
<1>1. ASSUME IInv, NEW y \in Z, NEW z \in Z, NEW p \in Ids, NEW q \in Ids,
             cmd.aff_mode = "scan" \/ Roomy,
             th[y][p] \in Busy, th[z][q] \in Busy, on[y][p] = on[z][q], on[y][p] >= 0
      PROVE  y = z /\ p = q
  <2>1. CASE cmd.aff_mode = "scan"
    BY <1>1, <2>1, ScanApart
  <2>2. CASE cmd.aff_mode # "scan"
    <3> DEFINE c == on[y][p]
    <3>1. c \in Int
      BY <1>1 DEF IInv, TypeOK
    <3>2. <<y, p>> \in Bound(c) /\ <<z, q>> \in Bound(c)
      BY <1>1 DEF Bound
    <3> HIDE DEF c
    <3> PICK h \in [Bound(c) -> {s \in Array : cmd.array[s] = c}] :
          \A t, u \in Bound(c) : h[t] = h[u] => t = u
      BY <1>1, <2>2, <3>1, OwnEntry
    <3>3. h[<<y, p>>] = h[<<z, q>>]
      BY <1>1, <2>2, <3>2 DEF Roomy
    <3> QED
      BY <3>2, <3>3
  <2> QED
    BY <2>1, <2>2
<1>2. IInv => Different
  BY <1>1 DEF Different
<1> QED
  BY <1>2, InvariantTheorem, PTL
=============================================================================
