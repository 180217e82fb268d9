--------------------------- MODULE DetachedProofs ---------------------------
(***************************************************************************)
(* Detached threads are joined through their buffers, whatever the number  *)
(* of threads, of runs and of addresses that malloc recycles.              *)
(***************************************************************************)
EXTENDS Detached, PthreadBarrierProofs, SequenceTheorems

Steps == {"loop", "wait", "delay", "lock", "store", "signal", "unlock"}

\* The position of a thread in the order of launches and joins.
Index(p) == CHOOSE i \in 1 .. nprocs : First[i] = p

\* The thread has been launched and its buffer is not yet freed.
Running(k) ==
  /\ k[1] = cur[1]
  /\ \/ pc = "launch" /\ Index(k[2]) < cur[2]
     \/ pc \notin {"launch", "return"} /\ Index(k[2]) >= cur[2]

\* The thread has been joined and its buffer is freed.
Joined(k) ==
  \/ k[1] < cur[1]
  \/ k[1] = cur[1] /\ pc = "return"
  \/ k[1] = cur[1] /\ pc # "launch" /\ Index(k[2]) < cur[2]

Buffers ==
  [live : BOOLEAN, owner : {NULL, "zyva"} \cup Tasks, some : BOOLEAN,
   val : {NULL} \cup Tasks, asleep : BOOLEAN]

\* What a thread has still to do ends by op_set, and has it only once.
EndsBySet(s) ==
  \A i \in 1 .. Len(s) :
    /\ s[i] = "lock"   <=> i = Len(s) - 3
    /\ s[i] = "store"  <=> i = Len(s) - 2
    /\ s[i] = "signal" <=> i = Len(s) - 1
    /\ s[i] = "unlock" <=> i = Len(s)

DetachedTypeOK ==
  /\ todo \in [Tasks -> Seq(Steps)]
  /\ loop \in Int
  /\ reg \in [Procs -> {NULL} \cup Int]
  /\ op \in [Tasks -> {NULL} \cup Addrs]
  /\ heap \in [Addrs -> Buffers]
  /\ cur \in (1 .. MaxRun) \X (1 .. nprocs)
  /\ pc \in {"launch", "lock", "wait", "awake", "take", "free", "return"}
  /\ got \in [Tasks -> {NULL} \cup Tasks]
  /\ fatal = FALSE

\* Only threads that run have anything to do.
TodoInv ==
  \A k \in Tasks : EndsBySet(todo[k]) /\ (~Running(k) => Len(todo[k]) = 0)

\* malloc: the live buffers are those of the threads that run, one for each.
HeapInv ==
  /\ \A k \in Tasks : Running(k) => op[k] \in Addrs /\ heap[op[k]].live
  /\ \A j, k \in Tasks : Running(j) /\ Running(k) /\ j # k => op[j] # op[k]
  /\ \A a \in Addrs : heap[a].live => \E k \in Tasks : Running(k) /\ op[k] = a

\* zyva has the mutex of the buffer of the thread it joins.
Holds(k) == k = This /\ pc \in {"wait", "take"}

\* The thread is between the lock and the unlock of op_set.
Sets(k) == Len(todo[k]) \in 1 .. 3

\* The mutex of a buffer excludes op_set and op_get, and the buffer is full
\* from the store to the moment zyva takes the value.
BufferOf(k) ==
  /\ heap[op[k]].owner = NULL <=> ~Sets(k) /\ ~Holds(k)
  /\ ~(Sets(k) /\ Holds(k))
  /\ heap[op[k]].some <=> Len(todo[k]) <= 2 /\ ~(k = This /\ pc = "free")
  /\ heap[op[k]].some => heap[op[k]].val = k

BufferInv == \A k \in Tasks : Running(k) => BufferOf(k)

\* zyva takes a value only from a thread that has nothing more to do.
JoinInv ==
  /\ pc = "take" => heap[op[This]].some
  /\ pc = "free" => Len(todo[This]) = 0 /\ got[This] = This
  /\ \A k \in Tasks : got[k] \in {k, NULL} /\ (Joined(k) => got[k] = k)

DetachedInv == IInv /\ DetachedTypeOK /\ TodoInv /\ HeapInv /\ BufferInv /\ JoinInv
-----------------------------------------------------------------------------
LEMMA IndexFacts ==
  /\ \A p \in Procs : Index(p) \in 1 .. nprocs /\ First[Index(p)] = p
  /\ \A i \in 1 .. nprocs : First[i] \in Procs /\ Index(First[i]) = i
<1>1. First \in Surjection(1 .. nprocs, Procs)
  BY OrderAssumption DEF Surjection
<1>2. Cardinality(1 .. nprocs) = nprocs /\ IsFiniteSet(1 .. nprocs)
  BY NprocsPositive, FS_Interval
<1>3. First \in Injection(1 .. nprocs, Procs)
  BY <1>1, <1>2, FS_Surjection DEF nprocs
<1>4. \A p \in Procs : Index(p) \in 1 .. nprocs /\ First[Index(p)] = p
  BY OrderAssumption DEF Index
<1>5. ASSUME NEW i \in 1 .. nprocs PROVE First[i] \in Procs /\ Index(First[i]) = i
  <2>1. First[i] \in Procs
    BY OrderAssumption
  <2>2. Index(First[i]) \in 1 .. nprocs /\ First[Index(First[i])] = First[i]
    BY <1>4, <2>1
  <2>3. DOMAIN First = 1 .. nprocs
    BY OrderAssumption
  <2> QED
    BY <1>3, <2>1, <2>2, <2>3 DEF Injection, IsInjective
<1> QED
  BY <1>4, <1>5

\* The threads of a run are those that zyva meets in order.
LEMMA ThisFacts ==
  ASSUME DetachedTypeOK
  PROVE  /\ This \in Tasks /\ This[1] = cur[1] /\ Index(This[2]) = cur[2]
         /\ \A k \in Tasks : k[1] = cur[1] /\ Index(k[2]) = cur[2] => k = This
         /\ pc = "launch" => ~Running(This)
         /\ pc \notin {"launch", "return"} => Running(This)
<1>1. cur[1] \in 1 .. MaxRun /\ cur[2] \in 1 .. nprocs
  BY DEF DetachedTypeOK
<1>2. First[cur[2]] \in Procs /\ Index(First[cur[2]]) = cur[2]
  BY <1>1, IndexFacts
<1>3. This \in Tasks /\ This[1] = cur[1] /\ Index(This[2]) = cur[2]
  BY <1>1, <1>2 DEF This, Tasks
<1>4. ASSUME NEW k \in Tasks, k[1] = cur[1], Index(k[2]) = cur[2] PROVE k = This
  <2>1. k[2] \in Procs /\ k = <<k[1], k[2]>>
    BY DEF Tasks
  <2>2. First[Index(k[2])] = k[2]
    BY <2>1, IndexFacts
  <2> QED
    BY <1>4, <2>1, <2>2 DEF This
<1> QED
  BY <1>1, <1>3, <1>4, NprocsPositive DEF Running

\* malloc finds an address: fewer than N buffers are live while zyva launches.
LEMMA MallocFinds ==
  ASSUME DetachedTypeOK, HeapInv, pc = "launch"
  PROVE  malloc \in Addrs /\ ~heap[malloc].live
<1>1. cur[1] \in 1 .. MaxRun /\ cur[2] \in 1 .. nprocs
  BY DEF DetachedTypeOK
<1>2. SUFFICES ASSUME \A a \in Addrs : heap[a].live PROVE FALSE
  BY DEF malloc
<1> DEFINE n == cur[2] - 1
           f == [i \in 1 .. n |-> op[<<cur[1], First[i]>>]]
<1>3. n \in Nat /\ n < nprocs /\ n < cur[2]
  BY <1>1, NprocsPositive
<1>4. ASSUME NEW i \in 1 .. n PROVE op[<<cur[1], First[i]>>] \in Addrs
  <2>1. i \in 1 .. nprocs /\ i < cur[2]
    BY <1>1, NprocsPositive
  <2>2. First[i] \in Procs /\ Index(First[i]) = i
    BY <2>1, IndexFacts
  <2>3. <<cur[1], First[i]>> \in Tasks /\ Running(<<cur[1], First[i]>>)
    BY <1>1, <2>1, <2>2 DEF Tasks, Running
  <2> QED
    BY <2>3 DEF HeapInv
<1>5. ASSUME NEW a \in Addrs PROVE \E i \in 1 .. n : op[<<cur[1], First[i]>>] = a
  <2>1. PICK k \in Tasks : Running(k) /\ op[k] = a
    BY <1>2 DEF HeapInv
  <2>2. k[2] \in Procs /\ k = <<k[1], k[2]>>
    BY DEF Tasks
  <2>3. Index(k[2]) \in 1 .. nprocs /\ First[Index(k[2])] = k[2]
    BY <2>2, IndexFacts
  <2>4. k[1] = cur[1] /\ Index(k[2]) < cur[2]
    BY <2>1 DEF Running
  <2>5. Index(k[2]) \in 1 .. n
    BY <1>1, <2>3, <2>4, NprocsPositive
  <2> QED
    BY <2>1, <2>2, <2>3, <2>4, <2>5
<1>6. f \in Surjection(1 .. n, Addrs)
  BY <1>4, <1>5 DEF Surjection
<1>7. Cardinality(Addrs) <= n
  BY <1>3, <1>6, FS_SurjCardinalityBound DEF ExistsSurjection
<1> QED
  BY <1>3, <1>7, AddrsAssumption, FS_CardinalityType, NprocsPositive

\* The head of what a thread has to do tells how far it is from the end.
LEMMA TailFacts ==
  ASSUME NEW s \in Seq(Steps), s # <<>>, EndsBySet(s)
  PROVE  /\ Len(s) \in Nat /\ Len(s) > 0
         /\ Tail(s) \in Seq(Steps) /\ EndsBySet(Tail(s)) /\ Len(Tail(s)) = Len(s) - 1
         /\ Head(s) = "lock"   <=> Len(s) = 4
         /\ Head(s) = "store"  <=> Len(s) = 3
         /\ Head(s) = "signal" <=> Len(s) = 2
         /\ Head(s) = "unlock" <=> Len(s) = 1
<1> DEFINE n == Len(s)
           r == Tail(s)
<1>1. /\ n \in Nat /\ n > 0 /\ Head(s) = s[1]
      /\ r \in Seq(Steps) /\ Len(r) = n - 1
      /\ \A i \in 1 .. n - 1 : r[i] = s[i + 1]
  BY HeadTailProperties, EmptySeq
<1>2. \A i \in 1 .. n : /\ s[i] = "lock"   <=> i = n - 3
                        /\ s[i] = "store"  <=> i = n - 2
                        /\ s[i] = "signal" <=> i = n - 1
                        /\ s[i] = "unlock" <=> i = n
  BY DEF EndsBySet
<1> HIDE DEF n, r
<1>3. EndsBySet(r)
  <2> SUFFICES ASSUME NEW i \in 1 .. n - 1
               PROVE  /\ r[i] = "lock"   <=> i = (n - 1) - 3
                      /\ r[i] = "store"  <=> i = (n - 1) - 2
                      /\ r[i] = "signal" <=> i = (n - 1) - 1
                      /\ r[i] = "unlock" <=> i = n - 1
    BY <1>1 DEF EndsBySet
  <2>1. i + 1 \in 1 .. n /\ r[i] = s[i + 1]
    BY <1>1
  <2> QED
    BY <1>1, <1>2, <2>1
<1>4. /\ s[1] = "lock"   <=> n = 4
      /\ s[1] = "store"  <=> n = 3
      /\ s[1] = "signal" <=> n = 2
      /\ s[1] = "unlock" <=> n = 1
  <2>1. 1 \in 1 .. n
    BY <1>1
  <2> QED
    BY <1>1, <1>2, <2>1
<1> QED
  BY <1>1, <1>3, <1>4 DEF n, r

LEMMA TaskFacts == Task \in Seq(Steps) /\ EndsBySet(Task) /\ Len(Task) \in Nat /\ Len(Task) >= 4
<1> DEFINE m == 3 * (Rounds \div MaxRun)
<1>1. m \in Nat
  BY RoundsAssumption, MaxRunAssumption
<1>2. \A i \in 1 .. m : Iterations[i] \in {"loop", "wait", "delay"}
  <2> SUFFICES ASSUME NEW i \in 1 .. m PROVE Iterations[i] \in {"loop", "wait", "delay"}
    OBVIOUS
  <2>1. ((i - 1) % 3) + 1 \in 1 .. 3
    BY <1>1
  <2> QED
    BY <2>1 DEF Iterations, barrier_wait
<1>3. Iterations \in Seq(Steps) /\ Len(Iterations) = m
  <2>1. Iterations \in [1 .. m -> Steps]
    BY <1>2 DEF Iterations, Steps
  <2> HIDE DEF m
  <2>2. Iterations \in Seq(Steps)
    BY <1>1, <2>1, SeqDef
  <2>3. DOMAIN Iterations = 1 .. m /\ DOMAIN Iterations = 1 .. Len(Iterations)
    BY <2>1, <2>2, LenProperties
  <2> QED
    BY <1>1, <2>2, <2>3, LenProperties
<1>4. /\ OpSet \in Seq(Steps) /\ Len(OpSet) = 4
      /\ OpSet[1] = "lock" /\ OpSet[2] = "store" /\ OpSet[3] = "signal" /\ OpSet[4] = "unlock"
  BY DEF OpSet, Steps
<1> HIDE DEF m
<1>5. /\ Task \in Seq(Steps) /\ Len(Task) = m + 4
      /\ \A i \in 1 .. m + 4 : Task[i] = IF i <= m THEN Iterations[i] ELSE OpSet[i - m]
  <2> DEFINE its == Iterations
             set == OpSet
             both == its \o set
  <2>1. /\ both \in Seq(Steps) /\ Len(both) = Len(its) + Len(set)
        /\ \A i \in 1 .. Len(its) + Len(set) :
              both[i] = IF i <= Len(its) THEN its[i] ELSE set[i - Len(its)]
    BY <1>3, <1>4, ConcatProperties
  <2>2. Len(its) = m /\ Len(set) = 4 /\ Task = both
    BY <1>3, <1>4 DEF Task
  <2> HIDE DEF its, set, both
  <2>3. /\ Task \in Seq(Steps) /\ Len(Task) = m + 4
        /\ \A i \in 1 .. m + 4 : Task[i] = IF i <= m THEN its[i] ELSE set[i - m]
    BY <2>1, <2>2
  <2> QED
    BY <2>3 DEF its, set
<1>6. \A i \in 1 .. m : Task[i] \in {"loop", "wait", "delay"}
  BY <1>1, <1>2, <1>5
<1>7. /\ Task[m + 1] = "lock" /\ Task[m + 2] = "store"
      /\ Task[m + 3] = "signal" /\ Task[m + 4] = "unlock"
  <2>1. \A j \in 1 .. 4 : Task[m + j] = OpSet[j]
    <3> SUFFICES ASSUME NEW j \in 1 .. 4 PROVE Task[m + j] = OpSet[j]
      OBVIOUS
    <3>1. m + j \in 1 .. m + 4 /\ ~(m + j <= m) /\ (m + j) - m = j
      BY <1>1
    <3> QED
      BY <1>5, <3>1
  <2> QED
    BY <1>4, <2>1
<1>8. EndsBySet(Task)
  <2> DEFINE n == Len(Task)
             s == Task
  <2>1. n = m + 4
    BY <1>5
  <2> HIDE DEF n, s
  <2>2. \A i \in 1 .. n : /\ s[i] = "lock"   <=> i = n - 3
                          /\ s[i] = "store"  <=> i = n - 2
                          /\ s[i] = "signal" <=> i = n - 1
                          /\ s[i] = "unlock" <=> i = n
    <3> SUFFICES ASSUME NEW i \in 1 .. n
                 PROVE /\ s[i] = "lock"   <=> i = n - 3
                       /\ s[i] = "store"  <=> i = n - 2
                       /\ s[i] = "signal" <=> i = n - 1
                       /\ s[i] = "unlock" <=> i = n
      OBVIOUS
    <3>1. i \in 1 .. m \/ i = m + 1 \/ i = m + 2 \/ i = m + 3 \/ i = m + 4
      BY <1>1, <2>1
    <3>2. /\ i \in 1 .. m => s[i] \in {"loop", "wait", "delay"}
          /\ s[m + 1] = "lock" /\ s[m + 2] = "store"
          /\ s[m + 3] = "signal" /\ s[m + 4] = "unlock"
      BY <1>6, <1>7 DEF s
    <3> QED
      BY <1>1, <2>1, <3>1, <3>2
  <2> QED
    BY <2>2 DEF n, s, EndsBySet
<1> QED
  BY <1>1, <1>5, <1>8

\* While zyva joins, the threads that run and those joined are the same.
LEMMA Joining ==
  ASSUME DetachedTypeOK, cur' = cur,
         \/ pc' = pc
         \/ {pc, pc'} \subseteq {"lock", "wait", "awake", "take", "free"}
  PROVE  /\ This' = This
         /\ \A j \in Tasks : Running(j)' <=> Running(j)
         /\ \A j \in Tasks : Joined(j)' <=> Joined(j)
<1>1. This' = This
  BY DEF This
<1>2. ASSUME NEW j \in Tasks PROVE Running(j)' <=> Running(j)
  BY DEF Running
<1>3. ASSUME NEW j \in Tasks PROVE Joined(j)' <=> Joined(j)
  BY DEF Joined
<1> QED
  BY <1>1, <1>2, <1>3

LEMMA RunningOrJoined ==
  ASSUME DetachedTypeOK, NEW k \in Tasks, Running(k)
  PROVE  ~Joined(k)
<1>1. Index(k[2]) \in 1 .. nprocs
  BY IndexFacts DEF Tasks
<1>2. cur[1] \in 1 .. MaxRun /\ cur[2] \in 1 .. nprocs
  BY DEF DetachedTypeOK
<1> QED
  BY <1>1, <1>2, NprocsPositive DEF Running, Joined

\* A step on the buffer of one thread, by the thread or by zyva that joins it.
LEMMA OneBuffer ==
  ASSUME DetachedInv, NEW k \in Tasks, Running(k), op' = op, cur' = cur,
         \/ pc' = pc
         \/ k = This /\ {pc, pc'} \subseteq {"lock", "wait", "awake", "take", "free"},
         heap[op[k]].live = heap'[op[k]].live,
         \A c \in Addrs \ {op[k]} : heap'[c] = heap[c],
         \A j \in Tasks \ {k} : todo'[j] = todo[j] /\ got'[j] = got[j],
         BufferOf(k)',
         k = This => /\ pc' = "take" => heap'[op[k]].some
                     /\ pc' = "free" => Len(todo'[k]) = 0 /\ got'[k] = k,
         got'[k] \in {k, NULL}
  PROVE  HeapInv' /\ BufferInv' /\ JoinInv'
<1>1. /\ This' = This
      /\ \A j \in Tasks : Running(j)' <=> Running(j)
      /\ \A j \in Tasks : Joined(j)' <=> Joined(j)
  <2> {pc, pc'} \subseteq {"lock", "wait", "awake", "take", "free"} \/ pc' = pc
    OBVIOUS
  <2> QED
    BY Joining DEF DetachedInv
<1>2. HeapInv'
  <2>1. \A c \in Addrs : heap'[c].live = heap[c].live
    OBVIOUS
  <2> QED
    BY <1>1, <2>1 DEF DetachedInv, HeapInv
<1>3. \A j \in Tasks : Running(j) /\ j # k =>
         op[j] \in Addrs /\ heap'[op[j]] = heap[op[j]]
  BY DEF DetachedInv, HeapInv
<1>4. ASSUME NEW j \in Tasks, Running(j), j # k PROVE BufferOf(j)'
  <2>1. BufferOf(j) /\ heap'[op[j]] = heap[op[j]] /\ todo'[j] = todo[j]
    BY <1>3, <1>4 DEF DetachedInv, BufferInv
  <2>2. Holds(j)' <=> Holds(j)
    BY <1>1, <1>4 DEF Holds
  <2>3. Sets(j)' <=> Sets(j)
    BY <2>1 DEF Sets
  <2>4. (j = This /\ pc = "free")' <=> (j = This /\ pc = "free")
    BY <1>1, <1>4
  <2> QED
    BY <2>1, <2>2, <2>3, <2>4 DEF BufferOf
<1>5. BufferInv'
  BY <1>1, <1>4 DEF BufferInv
<1>6. CASE k = This
  <2>1. /\ (pc = "take" => heap[op[This]].some)'
        /\ (pc = "free" => Len(todo[This]) = 0 /\ got[This] = This)'
    BY <1>1, <1>6
  <2>2. ASSUME NEW j \in Tasks
        PROVE  got'[j] \in {j, NULL} /\ (Joined(j)' => got'[j] = j)
    <3>1. j = k => ~Joined(j)
      BY RunningOrJoined DEF DetachedInv
    <3> QED
      BY <1>1, <3>1 DEF DetachedInv, JoinInv
  <2> QED
    BY <1>2, <1>5, <2>1, <2>2 DEF JoinInv
<1>7. CASE k # This
  <2>1. pc \in {"take", "free"} => This \in Tasks /\ Running(This)
    BY ThisFacts DEF DetachedInv
  <2>2. /\ (pc = "take" => heap[op[This]].some)'
        /\ (pc = "free" => Len(todo[This]) = 0 /\ got[This] = This)'
    BY <1>1, <1>3, <1>7, <2>1 DEF DetachedInv, JoinInv
  <2>3. ASSUME NEW j \in Tasks
        PROVE  got'[j] \in {j, NULL} /\ (Joined(j)' => got'[j] = j)
    <3>1. j = k => ~Joined(j)
      BY RunningOrJoined DEF DetachedInv
    <3> QED
      BY <1>1, <3>1 DEF DetachedInv, JoinInv
  <2> QED
    BY <1>2, <1>5, <2>2, <2>3 DEF JoinInv
<1> QED
  BY <1>6, <1>7

\* A thread that takes a step has not been joined, and its buffer is its own.
LEMMA Working ==
  ASSUME DetachedInv, NEW k \in Tasks, todo[k] # <<>>
  PROVE  /\ Running(k) /\ op[k] \in Addrs /\ heap[op[k]] \in Buffers
         /\ heap[op[k]].live /\ BufferOf(k)
         /\ Len(todo[k]) \in Nat /\ Len(todo[k]) > 0
         /\ ~(k = This /\ pc = "free")
<1>1. todo[k] \in Seq(Steps)
  BY DEF DetachedInv, DetachedTypeOK
<1>2. Len(todo[k]) \in Nat /\ Len(todo[k]) > 0
  BY <1>1, EmptySeq
<1>3. Running(k)
  BY <1>2 DEF DetachedInv, TodoInv
<1>4. op[k] \in Addrs /\ heap[op[k]].live /\ BufferOf(k)
  BY <1>3 DEF DetachedInv, HeapInv, BufferInv
<1>5. heap[op[k]] \in Buffers
  BY <1>4 DEF DetachedInv, DetachedTypeOK
<1>6. ~(k = This /\ pc = "free")
  BY <1>2 DEF DetachedInv, JoinInv
<1> QED
  BY <1>2, <1>3, <1>4, <1>5, <1>6

\* The thread advances by one step of what it has to do.
LEMMA Advance ==
  ASSUME DetachedInv, NEW k \in Tasks, todo[k] # <<>>, Done(k), UNCHANGED harness
  PROVE  /\ (todo \in [Tasks -> Seq(Steps)])' /\ TodoInv'
         /\ Len(todo'[k]) = Len(todo[k]) - 1
         /\ \A j \in Tasks \ {k} : todo'[j] = todo[j]
         /\ Head(todo[k]) = "lock"   <=> Len(todo[k]) = 4
         /\ Head(todo[k]) = "store"  <=> Len(todo[k]) = 3
         /\ Head(todo[k]) = "signal" <=> Len(todo[k]) = 2
         /\ Head(todo[k]) = "unlock" <=> Len(todo[k]) = 1
<1> DEFINE s == todo[k]
<1>1. todo \in [Tasks -> Seq(Steps)] /\ s \in Seq(Steps) /\ EndsBySet(s)
  BY DEF DetachedInv, DetachedTypeOK, TodoInv
<1>2. todo' = [todo EXCEPT ![k] = Tail(s)]
  BY DEF Done
<1>3. s # <<>>
  OBVIOUS
<1> HIDE DEF s
<1>4. /\ Tail(s) \in Seq(Steps) /\ EndsBySet(Tail(s)) /\ Len(Tail(s)) = Len(s) - 1
      /\ Head(s) = "lock"   <=> Len(s) = 4
      /\ Head(s) = "store"  <=> Len(s) = 3
      /\ Head(s) = "signal" <=> Len(s) = 2
      /\ Head(s) = "unlock" <=> Len(s) = 1
  BY <1>1, <1>3, TailFacts
<1>5. /\ todo' \in [Tasks -> Seq(Steps)]
      /\ todo'[k] = Tail(s) /\ \A j \in Tasks \ {k} : todo'[j] = todo[j]
  BY <1>1, <1>2, <1>4
<1>6. Running(k)
  BY Working
<1>7. \A j \in Tasks : Running(j)' <=> Running(j)
  BY Joining DEF DetachedInv, harness
<1>8. TodoInv'
  BY <1>1, <1>4, <1>5, <1>6, <1>7 DEF DetachedInv, TodoInv
<1> QED
  BY <1>4, <1>5, <1>8 DEF s

\* op_set, one call after the other.
LEMMA SetStep ==
  ASSUME DetachedInv, NEW k \in Tasks, Set(k), UNCHANGED harness
  PROVE  DetachedTypeOK' /\ TodoInv' /\ HeapInv' /\ BufferInv' /\ JoinInv'
<1> DEFINE a == op[k]
<1>1. /\ todo[k] # <<>> /\ Done(k)
      /\ op' = op /\ cur' = cur /\ pc' = pc /\ got' = got /\ loop' = loop /\ reg' = reg
  BY DEF Set, Step, At, harness
<1>2. /\ Running(k) /\ a \in Addrs /\ heap[a] \in Buffers /\ heap[a].live
      /\ BufferOf(k) /\ Len(todo[k]) \in Nat /\ ~(k = This /\ pc = "free")
  BY <1>1, Working
<1>3. /\ (todo \in [Tasks -> Seq(Steps)])' /\ TodoInv'
      /\ Len(todo'[k]) = Len(todo[k]) - 1
      /\ \A j \in Tasks \ {k} : todo'[j] = todo[j]
      /\ Head(todo[k]) = "lock"   <=> Len(todo[k]) = 4
      /\ Head(todo[k]) = "store"  <=> Len(todo[k]) = 3
      /\ Head(todo[k]) = "signal" <=> Len(todo[k]) = 2
      /\ Head(todo[k]) = "unlock" <=> Len(todo[k]) = 1
  BY <1>1, Advance
<1>4. heap \in [Addrs -> Buffers] /\ k # NULL /\ got[k] \in {k, NULL} /\ fatal = FALSE
  BY AddrsAssumption DEF DetachedInv, DetachedTypeOK, JoinInv
<1>5. This' = This
  BY <1>1 DEF This
<1> DEFINE n == Len(todo[k])
           m == Len(todo'[k])
<1> HIDE DEF n, m
<1>6. ASSUME heap'[a] \in Buffers,
             \A c \in Addrs \ {a} : heap'[c] = heap[c],
             heap' \in [Addrs -> Buffers],
             heap'[a].live = heap[a].live,
             heap'[a].owner = NULL <=> ~(m \in 1 .. 3) /\ ~Holds(k),
             ~Holds(k), fatal' = FALSE,
             heap'[a].some <=> m <= 2,
             heap'[a].some => heap'[a].val = k
      PROVE  DetachedTypeOK' /\ TodoInv' /\ HeapInv' /\ BufferInv' /\ JoinInv'
  <2>1. DetachedTypeOK'
    BY <1>1, <1>3, <1>6 DEF DetachedInv, DetachedTypeOK
  <2>2. Holds(k)' <=> Holds(k)
    BY <1>1, <1>5 DEF Holds
  <2>3. BufferOf(k)'
    BY <1>1, <1>2, <1>5, <1>6, <2>2 DEF BufferOf, Sets, m
  <2>4. k = This => pc' # "take" /\ pc' # "free"
    BY <1>1, <1>2, <1>6 DEF Holds
  <2>5. \A j \in Tasks \ {k} : todo'[j] = todo[j] /\ got'[j] = got[j]
    BY <1>1, <1>3
  <2>6. HeapInv' /\ BufferInv' /\ JoinInv'
    BY <1>1, <1>2, <1>4, <1>6, <2>3, <2>4, <2>5, OneBuffer
  <2> QED
    BY <1>3, <2>1, <2>6
<1>7. /\ heap[a].owner = NULL <=> ~(n \in 1 .. 3) /\ ~Holds(k)
      /\ ~(n \in 1 .. 3 /\ Holds(k))
      /\ heap[a].some <=> n <= 2
      /\ heap[a].some => heap[a].val = k
      /\ n \in Nat /\ m = n - 1
  BY <1>2, <1>3 DEF BufferOf, Sets, n, m
<1>8. CASE /\ Step(k, "lock") /\ heap[a].owner = NULL
           /\ heap' = [heap EXCEPT ![a].owner = k] /\ UNCHANGED fatal
  <2>1. n = 4
    BY <1>3, <1>8 DEF Step, At, n
  <2>2. /\ heap'[a] = [heap[a] EXCEPT !.owner = k]
        /\ \A c \in Addrs \ {a} : heap'[c] = heap[c]
        /\ heap' \in [Addrs -> Buffers]
    BY <1>2, <1>4, <1>8 DEF Buffers
  <2>3. /\ heap'[a].owner = k /\ heap'[a].live = heap[a].live
        /\ heap'[a].some = heap[a].some /\ heap'[a].val = heap[a].val
    BY <1>2, <2>2 DEF Buffers
  <2>4. /\ heap'[a].owner = NULL <=> ~(m \in 1 .. 3) /\ ~Holds(k)
        /\ ~Holds(k) /\ fatal' = FALSE
        /\ heap'[a].some <=> m <= 2
        /\ heap'[a].some => heap'[a].val = k
    BY <1>2, <1>4, <1>7, <1>8, <2>1, <2>3 DEF Buffers
  <2> QED
    BY <1>2, <1>6, <2>2, <2>3, <2>4
<1>9. CASE /\ Step(k, "store")
           /\ heap' = [heap EXCEPT ![a].some = TRUE, ![a].val = k]
           /\ fatal' = heap[a].some
  <2>1. n = 3
    BY <1>3, <1>9 DEF Step, At, n
  <2>2. /\ heap'[a] = [heap[a] EXCEPT !.some = TRUE, !.val = k]
        /\ \A c \in Addrs \ {a} : heap'[c] = heap[c]
        /\ heap' \in [Addrs -> Buffers]
    BY <1>2, <1>4, <1>9 DEF Buffers
  <2>3. /\ heap'[a].owner = heap[a].owner /\ heap'[a].live = heap[a].live
        /\ heap'[a].some = TRUE /\ heap'[a].val = k
    BY <1>2, <2>2 DEF Buffers
  <2>4. fatal' = FALSE
    BY <1>2, <1>7, <1>9, <2>1 DEF Buffers
  <2>5. /\ heap'[a].owner = NULL <=> ~(m \in 1 .. 3) /\ ~Holds(k)
        /\ ~Holds(k) /\ fatal' = FALSE
        /\ heap'[a].some <=> m <= 2
        /\ heap'[a].some => heap'[a].val = k
    BY <1>2, <1>4, <1>7, <1>9, <2>1, <2>3, <2>4 DEF Buffers
  <2> QED
    BY <1>2, <1>6, <2>2, <2>3, <2>5
<1>10. CASE /\ Step(k, "signal")
            /\ heap' = [heap EXCEPT ![a].asleep = FALSE] /\ UNCHANGED fatal
  <2>1. n = 2
    BY <1>3, <1>10 DEF Step, At, n
  <2>2. /\ heap'[a] = [heap[a] EXCEPT !.asleep = FALSE]
        /\ \A c \in Addrs \ {a} : heap'[c] = heap[c]
        /\ heap' \in [Addrs -> Buffers]
    BY <1>2, <1>4, <1>10 DEF Buffers
  <2>3. /\ heap'[a].owner = heap[a].owner /\ heap'[a].live = heap[a].live
        /\ heap'[a].some = heap[a].some /\ heap'[a].val = heap[a].val
    BY <1>2, <2>2 DEF Buffers
  <2>4. /\ heap'[a].owner = NULL <=> ~(m \in 1 .. 3) /\ ~Holds(k)
        /\ ~Holds(k) /\ fatal' = FALSE
        /\ heap'[a].some <=> m <= 2
        /\ heap'[a].some => heap'[a].val = k
    BY <1>2, <1>4, <1>7, <1>10, <2>1, <2>3 DEF Buffers
  <2> QED
    BY <1>2, <1>6, <2>2, <2>3, <2>4
<1>11. CASE /\ Step(k, "unlock")
            /\ heap' = [heap EXCEPT ![a].owner = NULL] /\ UNCHANGED fatal
  <2>1. n = 1
    BY <1>3, <1>11 DEF Step, At, n
  <2>2. /\ heap'[a] = [heap[a] EXCEPT !.owner = NULL]
        /\ \A c \in Addrs \ {a} : heap'[c] = heap[c]
        /\ heap' \in [Addrs -> Buffers]
    BY <1>2, <1>4, <1>11 DEF Buffers
  <2>3. /\ heap'[a].owner = NULL /\ heap'[a].live = heap[a].live
        /\ heap'[a].some = heap[a].some /\ heap'[a].val = heap[a].val
    BY <1>2, <2>2 DEF Buffers
  <2>4. /\ heap'[a].owner = NULL <=> ~(m \in 1 .. 3) /\ ~Holds(k)
        /\ ~Holds(k) /\ fatal' = FALSE
        /\ heap'[a].some <=> m <= 2
        /\ heap'[a].some => heap'[a].val = k
    BY <1>2, <1>4, <1>7, <1>11, <2>1, <2>3 DEF Buffers
  <2> QED
    BY <1>2, <1>6, <2>2, <2>3, <2>4
<1> QED
  BY <1>8, <1>9, <1>10, <1>11 DEF Set

\* barrier_wait: the thread is not yet at op_set, and uses no buffer.
LEMMA IterationStep ==
  ASSUME DetachedInv, NEW k \in Tasks, PbWait(k) \/ Delay(k), UNCHANGED harness
  PROVE  DetachedTypeOK' /\ TodoInv' /\ HeapInv' /\ BufferInv' /\ JoinInv'
<1>1. /\ todo[k] # <<>> /\ Head(todo[k]) \in {"wait", "loop", "delay"}
      /\ Done(k) \/ todo' = todo
      /\ op' = op /\ heap' = heap /\ fatal' = fatal
      /\ cur' = cur /\ pc' = pc /\ got' = got
  BY DEF PbWait, Delay, Step, At, harness, buffers
<1>2. loop' \in Int /\ reg' \in [Procs -> {NULL} \cup Int]
  <2>1. loop \in Int /\ reg \in [Procs -> {NULL} \cup Int] /\ k[2] \in Procs
    BY DEF DetachedInv, DetachedTypeOK, Tasks
  <2>2. CASE PbWait(k)
    BY <2>1, <2>2 DEF PbWait
  <2>3. CASE Delay(k)
    <3>1. Loop \in Int
      BY LoopAssumption
    <3>2. reg[k[2]] # NULL => reg[k[2]] \in Int
      BY <2>1
    <3> QED
      BY <2>1, <2>3, <3>1, <3>2 DEF Delay
  <2> QED
    BY <2>2, <2>3
<1>3. CASE todo' = todo
  <2>1. DetachedTypeOK'
    BY <1>1, <1>2, <1>3 DEF DetachedInv, DetachedTypeOK
  <2>2. This' = This
    BY <1>1 DEF This
  <2>3. \A j \in Tasks : /\ Running(j)' <=> Running(j)
                         /\ Joined(j)' <=> Joined(j)
                         /\ BufferOf(j)' <=> BufferOf(j)
    BY <1>1, <1>3, <2>2 DEF Running, Joined, BufferOf, Sets, Holds
  <2>4. TodoInv' /\ HeapInv' /\ BufferInv'
    BY <1>1, <1>3, <2>3 DEF DetachedInv, TodoInv, HeapInv, BufferInv
  <2>5. JoinInv'
    BY <1>1, <1>3, <2>2, <2>3 DEF DetachedInv, JoinInv
  <2> QED
    BY <2>1, <2>4, <2>5
<1>4. CASE Done(k)
  <2>1. /\ Running(k) /\ op[k] \in Addrs /\ heap[op[k]].live
        /\ BufferOf(k) /\ Len(todo[k]) \in Nat /\ Len(todo[k]) > 0
        /\ ~(k = This /\ pc = "free")
    BY <1>1, Working
  <2>2. /\ (todo \in [Tasks -> Seq(Steps)])' /\ TodoInv'
        /\ Len(todo'[k]) = Len(todo[k]) - 1
        /\ \A j \in Tasks \ {k} : todo'[j] = todo[j]
        /\ Len(todo[k]) # 1 /\ Len(todo[k]) # 2 /\ Len(todo[k]) # 3 /\ Len(todo[k]) # 4
    <3>1. UNCHANGED harness
      BY <1>1 DEF harness
    <3> QED
      BY <1>1, <1>4, <2>1, <3>1, Advance
  <2>3. DetachedTypeOK'
    BY <1>1, <1>2, <2>2 DEF DetachedInv, DetachedTypeOK
  <2>4. This' = This
    BY <1>1 DEF This
  <2>5. Holds(k)' <=> Holds(k)
    BY <1>1, <2>4 DEF Holds
  <2> DEFINE n == Len(todo[k])
             m == Len(todo'[k])
  <2>9. /\ heap[op[k]].owner = NULL <=> ~(n \in 1 .. 3) /\ ~Holds(k)
        /\ heap[op[k]].some <=> n <= 2 /\ ~(k = This /\ pc = "free")
        /\ heap[op[k]].some => heap[op[k]].val = k
        /\ n \in Nat /\ n > 0 /\ n # 1 /\ n # 2 /\ n # 3 /\ n # 4 /\ m = n - 1
    BY <2>1, <2>2 DEF BufferOf, Sets
  <2> HIDE DEF n, m
  <2>10. n > 4 /\ m >= 4 /\ m \in Nat
    BY <2>9
  <2>6. BufferOf(k)'
    <3>1. /\ heap[op[k]].owner = NULL <=> ~(m \in 1 .. 3) /\ ~Holds(k)
          /\ ~(m \in 1 .. 3)
          /\ heap[op[k]].some <=> m <= 2 /\ ~(k = This /\ pc = "free")
          /\ heap[op[k]].some => heap[op[k]].val = k
      BY <2>9, <2>10
    <3> QED
      BY <1>1, <2>4, <2>5, <3>1 DEF BufferOf, Sets, m
  <2>7. /\ pc = "take" => ~(k = This)
        /\ got[k] \in {k, NULL}
    BY <2>9, <2>10 DEF DetachedInv, JoinInv
  <2>8. HeapInv' /\ BufferInv' /\ JoinInv'
    BY <1>1, <2>1, <2>2, <2>6, <2>7, OneBuffer
  <2> QED
    BY <2>2, <2>3, <2>8
<1> QED
  BY <1>1, <1>3, <1>4

\* pthread_cond_wait returns in op_get for no reason.
LEMMA SpuriousStep ==
  ASSUME DetachedInv, NEW a \in Addrs,
         heap' = [heap EXCEPT ![a].asleep = FALSE],
         UNCHANGED <<todo, loop, reg, op, harness, fatal>>
  PROVE  DetachedTypeOK' /\ TodoInv' /\ HeapInv' /\ BufferInv' /\ JoinInv'
<1>1. /\ todo' = todo /\ op' = op /\ cur' = cur /\ pc' = pc /\ got' = got
      /\ loop' = loop /\ reg' = reg /\ fatal' = fatal
  BY DEF harness
<1>2. heap \in [Addrs -> Buffers]
  BY DEF DetachedInv, DetachedTypeOK
<1>3. /\ heap' \in [Addrs -> Buffers]
      /\ \A c \in Addrs : /\ heap'[c].live = heap[c].live
                          /\ heap'[c].owner = heap[c].owner
                          /\ heap'[c].some = heap[c].some
                          /\ heap'[c].val = heap[c].val
  BY <1>2 DEF Buffers
<1>4. DetachedTypeOK'
  BY <1>1, <1>3 DEF DetachedInv, DetachedTypeOK
<1>5. This' = This
  BY <1>1 DEF This
<1>6. \A j \in Tasks : /\ Running(j)' <=> Running(j)
                       /\ Joined(j)' <=> Joined(j)
                       /\ Holds(j)' <=> Holds(j)
                       /\ Sets(j)' <=> Sets(j)
  BY <1>1, <1>5 DEF Running, Joined, Sets, Holds
<1>7. \A j \in Tasks : op[j] \in Addrs => (BufferOf(j)' <=> BufferOf(j))
  BY <1>1, <1>3, <1>5, <1>6 DEF BufferOf
<1>8. TodoInv' /\ HeapInv'
  BY <1>1, <1>3, <1>6 DEF DetachedInv, TodoInv, HeapInv
<1>9. BufferInv'
  BY <1>1, <1>6, <1>7 DEF DetachedInv, HeapInv, BufferInv
<1>10. pc = "take" => op[This] \in Addrs
  BY ThisFacts DEF DetachedInv, HeapInv
<1>11. JoinInv'
  BY <1>1, <1>3, <1>5, <1>6, <1>10 DEF DetachedInv, JoinInv
<1> QED
  BY <1>4, <1>8, <1>9, <1>11

\* op_get, by the thread that joins.
LEMMA OpGetStep ==
  ASSUME DetachedInv, OpGet, UNCHANGED <<loop, reg>>
  PROVE  DetachedTypeOK' /\ TodoInv' /\ HeapInv' /\ BufferInv' /\ JoinInv'
<1>0. PICK k \in Tasks : k = This
  BY ThisFacts DEF DetachedInv
<1> DEFINE a == op[k]
           n == Len(todo[k])
<1>1. /\ todo' = todo /\ op' = op /\ cur' = cur /\ fatal' = fatal
      /\ loop' = loop /\ reg' = reg
      /\ {pc, pc'} \subseteq {"lock", "wait", "awake", "take", "free"}
      /\ pc # "free"
  BY DEF OpGet, Awake
<1>2. Running(k)
  BY <1>0, <1>1, ThisFacts DEF DetachedInv
<1>3. a \in Addrs /\ heap[a].live /\ BufferOf(k) /\ todo[k] \in Seq(Steps)
  BY <1>2 DEF DetachedInv, HeapInv, BufferInv, DetachedTypeOK
<1>4. /\ heap \in [Addrs -> Buffers] /\ heap[a] \in Buffers
      /\ got \in [Tasks -> {NULL} \cup Tasks]
      /\ got[k] \in {k, NULL} /\ "zyva" # NULL
  BY <1>3, AddrsAssumption DEF DetachedInv, DetachedTypeOK, JoinInv
<1>5. /\ This' = This
      /\ \A j \in Tasks : Running(j)' <=> Running(j)
  BY <1>1, Joining DEF DetachedInv
<1>6. /\ heap[a].owner = NULL <=> ~(n \in 1 .. 3) /\ pc \notin {"wait", "take"}
      /\ ~(n \in 1 .. 3 /\ pc \in {"wait", "take"})
      /\ heap[a].some <=> n <= 2
      /\ heap[a].some => heap[a].val = k
      /\ n \in Nat
      /\ pc = "take" => heap[a].some
  BY <1>0, <1>1, <1>3, LenProperties
     DEF BufferOf, Sets, Holds, DetachedInv, JoinInv
<1>7. TodoInv'
  BY <1>1, <1>5 DEF DetachedInv, TodoInv
<1>8. ASSUME heap' \in [Addrs -> Buffers], got' \in [Tasks -> {NULL} \cup Tasks],
             \A c \in Addrs \ {a} : heap'[c] = heap[c],
             \A j \in Tasks \ {k} : got'[j] = got[j],
             heap'[a].live = heap[a].live,
             heap'[a].owner = NULL <=> ~(n \in 1 .. 3) /\ pc' \notin {"wait", "take"},
             ~(n \in 1 .. 3 /\ pc' \in {"wait", "take"}),
             heap'[a].some <=> n <= 2 /\ pc' # "free",
             heap'[a].some => heap'[a].val = k,
             pc' = "take" => heap'[a].some,
             pc' = "free" => n = 0 /\ got'[k] = k,
             got'[k] \in {k, NULL}
      PROVE  DetachedTypeOK' /\ TodoInv' /\ HeapInv' /\ BufferInv' /\ JoinInv'
  <2>1. DetachedTypeOK'
    BY <1>1, <1>8 DEF DetachedInv, DetachedTypeOK
  <2>2. BufferOf(k)'
    BY <1>0, <1>1, <1>5, <1>8 DEF BufferOf, Sets, Holds
  <2>3. \A j \in Tasks \ {k} : todo'[j] = todo[j] /\ got'[j] = got[j]
    BY <1>1, <1>8
  <2>4. /\ pc' = "take" => heap'[a].some
        /\ pc' = "free" => Len(todo'[k]) = 0 /\ got'[k] = k
    BY <1>1, <1>8
  <2>5. HeapInv' /\ BufferInv' /\ JoinInv'
    <3> HIDE DEF n
    <3> QED
      BY <1>0, <1>1, <1>2, <1>8, <2>2, <2>3, <2>4, OneBuffer
  <2> QED
    BY <1>7, <2>1, <2>5
<1> HIDE DEF n, a
<1>9. CASE /\ pc = "lock" /\ heap[a].owner = NULL
           /\ heap' = [heap EXCEPT ![a].owner = "zyva"]
           /\ pc' = (IF heap[a].some THEN "take" ELSE "wait")
           /\ UNCHANGED got
  <2>1. /\ heap'[a] = [heap[a] EXCEPT !.owner = "zyva"]
        /\ \A c \in Addrs \ {a} : heap'[c] = heap[c]
        /\ heap' \in [Addrs -> Buffers]
    BY <1>3, <1>4, <1>9 DEF Buffers
  <2>2. /\ heap'[a].owner = "zyva" /\ heap'[a].live = heap[a].live
        /\ heap'[a].some = heap[a].some /\ heap'[a].val = heap[a].val
    BY <1>4, <2>1 DEF Buffers
  <2> QED
    BY <1>4, <1>6, <1>8, <1>9, <2>1, <2>2
<1>10. CASE /\ pc = "wait"
            /\ heap' = [heap EXCEPT ![a].owner = NULL, ![a].asleep = TRUE]
            /\ pc' = "awake" /\ UNCHANGED got
  <2>1. /\ heap'[a] = [heap[a] EXCEPT !.owner = NULL, !.asleep = TRUE]
        /\ \A c \in Addrs \ {a} : heap'[c] = heap[c]
        /\ heap' \in [Addrs -> Buffers]
    BY <1>3, <1>4, <1>10 DEF Buffers
  <2>2. /\ heap'[a].owner = NULL /\ heap'[a].live = heap[a].live
        /\ heap'[a].some = heap[a].some /\ heap'[a].val = heap[a].val
    BY <1>4, <2>1 DEF Buffers
  <2> QED
    BY <1>4, <1>6, <1>8, <1>10, <2>1, <2>2
<1>11. CASE /\ pc = "awake" /\ ~heap[a].asleep /\ heap[a].owner = NULL
            /\ heap' = [heap EXCEPT ![a].owner = "zyva"]
            /\ pc' = Awake(heap[a]) /\ UNCHANGED got
  <2>1. /\ heap'[a] = [heap[a] EXCEPT !.owner = "zyva"]
        /\ \A c \in Addrs \ {a} : heap'[c] = heap[c]
        /\ heap' \in [Addrs -> Buffers]
        /\ pc' = IF heap[a].some THEN "take" ELSE "wait"
    BY <1>3, <1>4, <1>11 DEF Buffers, Awake
  <2>2. /\ heap'[a].owner = "zyva" /\ heap'[a].live = heap[a].live
        /\ heap'[a].some = heap[a].some /\ heap'[a].val = heap[a].val
    BY <1>4, <2>1 DEF Buffers
  <2> QED
    BY <1>4, <1>6, <1>8, <1>11, <2>1, <2>2
<1>12. CASE /\ pc = "take"
            /\ got' = [got EXCEPT ![k] = heap[a].val]
            /\ heap' = [heap EXCEPT ![a] = Taken(@)]
            /\ pc' = "free"
  <2>1. /\ heap'[a] = [heap[a] EXCEPT !.val = NULL, !.some = FALSE, !.owner = NULL]
        /\ \A c \in Addrs \ {a} : heap'[c] = heap[c]
        /\ heap' \in [Addrs -> Buffers]
    BY <1>3, <1>4, <1>12 DEF Buffers, Taken
  <2>2. heap'[a].owner = NULL /\ heap'[a].live = heap[a].live /\ heap'[a].some = FALSE
    BY <1>4, <2>1 DEF Buffers
  <2>3. n = 0 /\ heap[a].val = k
    BY <1>6, <1>12
  <2>4. /\ got' \in [Tasks -> {NULL} \cup Tasks] /\ got'[k] = k
        /\ \A j \in Tasks \ {k} : got'[j] = got[j]
    BY <1>2, <1>4, <1>12, <2>3
  <2> QED
    BY <1>4, <1>6, <1>8, <1>12, <2>1, <2>2, <2>3, <2>4
<1> QED
  <2>1. \/ /\ pc = "lock" /\ heap[a].owner = NULL
           /\ heap' = [heap EXCEPT ![a].owner = "zyva"]
           /\ pc' = (IF heap[a].some THEN "take" ELSE "wait")
           /\ UNCHANGED got
        \/ /\ pc = "wait"
           /\ heap' = [heap EXCEPT ![a].owner = NULL, ![a].asleep = TRUE]
           /\ pc' = "awake" /\ UNCHANGED got
        \/ /\ pc = "awake" /\ ~heap[a].asleep /\ heap[a].owner = NULL
           /\ heap' = [heap EXCEPT ![a].owner = "zyva"]
           /\ pc' = Awake(heap[a]) /\ UNCHANGED got
        \/ /\ pc = "take"
           /\ got' = [got EXCEPT ![k] = heap[a].val]
           /\ heap' = [heap EXCEPT ![a] = Taken(@)]
           /\ pc' = "free"
    BY <1>0 DEF OpGet, a
  <2> QED
    BY <1>9, <1>10, <1>11, <1>12, <2>1

\* op_free: the thread has left its buffer for good.
LEMMA OpFreeStep ==
  ASSUME DetachedInv, OpFree, UNCHANGED <<loop, reg>>
  PROVE  DetachedTypeOK' /\ TodoInv' /\ HeapInv' /\ BufferInv' /\ JoinInv'
<1>0. PICK k \in Tasks : k = This
  BY ThisFacts DEF DetachedInv
<1> DEFINE a == op[k]
           c == cur[1]
           x == cur[2]
<1>1. /\ todo' = todo /\ op' = op /\ got' = got /\ fatal' = fatal
      /\ loop' = loop /\ reg' = reg /\ pc = "free"
      /\ heap' = [heap EXCEPT ![a] = Free]
  BY <1>0 DEF OpFree
<1>2. /\ Running(k) /\ k[1] = c /\ Index(k[2]) = x
      /\ \A j \in Tasks : j[1] = c /\ Index(j[2]) = x => j = k
  BY <1>0, <1>1, ThisFacts DEF DetachedInv
<1>3. /\ a \in Addrs /\ heap[a].live /\ heap \in [Addrs -> Buffers]
      /\ todo[k] \in Seq(Steps) /\ Len(todo[k]) = 0 /\ got[k] = k
  BY <1>0, <1>1, <1>2 DEF DetachedInv, HeapInv, JoinInv, DetachedTypeOK
<1>4. /\ Free \in Buffers
      /\ heap' \in [Addrs -> Buffers] /\ heap'[a] = Free /\ ~heap'[a].live
      /\ \A d \in Addrs \ {a} : heap'[d] = heap[d]
  BY <1>1, <1>3 DEF Free, Buffers
<1>5. /\ c \in 1 .. MaxRun /\ x \in 1 .. nprocs /\ cur = <<c, x>>
      /\ MaxRun \in Nat
      /\ \A j \in Tasks : Index(j[2]) \in 1 .. nprocs /\ j[1] \in 1 .. MaxRun
  BY IndexFacts, MaxRunAssumption DEF DetachedInv, DetachedTypeOK, Tasks
<1>6. \/ x < nprocs /\ cur' = <<c, x + 1>> /\ pc' = "lock"
      \/ x = nprocs /\ c < MaxRun /\ cur' = <<c + 1, 1>> /\ pc' = "launch"
      \/ x = nprocs /\ cur' = cur /\ pc' = "return"
  BY <1>5, NprocsPositive DEF OpFree
<1> HIDE DEF c, x
<1>7. cur' \in (1 .. MaxRun) \X (1 .. nprocs) /\ pc' \in {"lock", "launch", "return"}
  BY <1>5, <1>6, NprocsPositive
<1>8. ASSUME NEW j \in Tasks
      PROVE  /\ Running(j)' <=> Running(j) /\ j # k
             /\ Joined(j)' => Joined(j) \/ j = k
  <2> DEFINE i == Index(j[2])
             r == j[1]
  <2>1. /\ i \in 1 .. nprocs /\ r \in 1 .. MaxRun
        /\ r = c /\ i = x <=> j = k
    BY <1>2, <1>5
  <2>2. Running(j) <=> r = c /\ i >= x
    BY <1>1 DEF Running, c, x
  <2>3. Joined(j) <=> r < c \/ (r = c /\ i < x)
    BY <1>1 DEF Joined, c, x
  <2>4. /\ Running(j)' <=> /\ r = cur'[1]
                           /\ \/ pc' = "launch" /\ i < cur'[2]
                              \/ pc' \notin {"launch", "return"} /\ i >= cur'[2]
        /\ Joined(j)' <=> \/ r < cur'[1]
                          \/ r = cur'[1] /\ pc' = "return"
                          \/ r = cur'[1] /\ pc' # "launch" /\ i < cur'[2]
    BY DEF Running, Joined
  <2> HIDE DEF i, r
  <2>5. CASE x < nprocs /\ cur' = <<c, x + 1>> /\ pc' = "lock"
    <3>1. cur'[1] = c /\ cur'[2] = x + 1
      BY <2>5
    <3> QED
      BY <1>5, <2>1, <2>2, <2>3, <2>4, <2>5, <3>1, NprocsPositive
  <2>6. CASE x = nprocs /\ c < MaxRun /\ cur' = <<c + 1, 1>> /\ pc' = "launch"
    <3>1. cur'[1] = c + 1 /\ cur'[2] = 1
      BY <2>6
    <3> QED
      BY <1>5, <2>1, <2>2, <2>3, <2>4, <2>6, <3>1, NprocsPositive
  <2>7. CASE x = nprocs /\ cur' = cur /\ pc' = "return"
    <3>1. cur'[1] = c /\ cur'[2] = x
      BY <1>5, <2>7
    <3> QED
      BY <1>5, <2>1, <2>2, <2>3, <2>4, <2>7, <3>1, NprocsPositive
  <2> QED
    BY <1>6, <2>5, <2>6, <2>7
<1>9. DetachedTypeOK'
  BY <1>1, <1>4, <1>7 DEF DetachedInv, DetachedTypeOK
<1>10. TodoInv'
  BY <1>1, <1>3, <1>8 DEF DetachedInv, TodoInv
<1>11. \A j \in Tasks : Running(j) /\ j # k =>
          op[j] \in Addrs /\ op[j] # a /\ heap'[op[j]] = heap[op[j]]
  BY <1>2, <1>4 DEF DetachedInv, HeapInv
<1>12. HeapInv'
  BY <1>1, <1>4, <1>8, <1>11 DEF DetachedInv, HeapInv
<1>13. BufferInv'
  <2> SUFFICES ASSUME NEW j \in Tasks, Running(j), j # k PROVE BufferOf(j)'
    BY <1>8 DEF BufferInv
  <2>1. BufferOf(j) /\ heap'[op[j]] = heap[op[j]]
    BY <1>11 DEF DetachedInv, BufferInv
  <2>2. ~Holds(j) /\ ~Holds(j)' /\ j # This /\ pc' # "free"
    BY <1>0, <1>1, <1>7 DEF Holds
  <2> QED
    BY <1>1, <2>1, <2>2 DEF BufferOf, Sets
<1>14. JoinInv'
  BY <1>1, <1>3, <1>7, <1>8 DEF DetachedInv, JoinInv
<1> QED
  BY <1>9, <1>10, <1>12, <1>13, <1>14

\* op_create and launch: the new buffer is not that of a thread that runs.
LEMMA LaunchStep ==
  ASSUME DetachedInv, launch_detached, UNCHANGED <<loop, reg>>
  PROVE  DetachedTypeOK' /\ TodoInv' /\ HeapInv' /\ BufferInv' /\ JoinInv'
<1>0. PICK k \in Tasks : k = This
  BY ThisFacts DEF DetachedInv
<1> DEFINE a == malloc
           c == cur[1]
           x == cur[2]
           new == [Free EXCEPT !.live = TRUE]
<1>1. /\ pc = "launch" /\ got' = got /\ fatal' = fatal
      /\ loop' = loop /\ reg' = reg
      /\ heap' = [heap EXCEPT ![a] = new]
      /\ op' = [op EXCEPT ![k] = a]
      /\ todo' = [todo EXCEPT ![k] = Task]
  BY <1>0 DEF launch_detached
<1>2. /\ ~Running(k) /\ k[1] = c /\ Index(k[2]) = x
      /\ \A j \in Tasks : j[1] = c /\ Index(j[2]) = x => j = k
  BY <1>0, <1>1, ThisFacts DEF DetachedInv
<1>3. a \in Addrs /\ ~heap[a].live
  BY <1>1, MallocFinds DEF DetachedInv
<1>4. /\ heap \in [Addrs -> Buffers] /\ op \in [Tasks -> {NULL} \cup Addrs]
      /\ todo \in [Tasks -> Seq(Steps)]
  BY DEF DetachedInv, DetachedTypeOK
<1>5. /\ new \in Buffers /\ new.live /\ new.owner = NULL /\ ~new.some
  BY DEF Free, Buffers
<1>6. /\ Task \in Seq(Steps) /\ EndsBySet(Task) /\ Len(Task) \in Nat /\ Len(Task) >= 4
  BY TaskFacts
<1>7. /\ c \in 1 .. MaxRun /\ x \in 1 .. nprocs /\ cur = <<c, x>>
      /\ \A j \in Tasks : Index(j[2]) \in 1 .. nprocs /\ j[1] \in 1 .. MaxRun
  BY IndexFacts DEF DetachedInv, DetachedTypeOK, Tasks
<1>8. \/ x < nprocs /\ cur' = <<c, x + 1>> /\ pc' = "launch"
      \/ x = nprocs /\ cur' = <<c, 1>> /\ pc' = "lock"
  BY <1>1, <1>7, NprocsPositive DEF launch_detached
<1> HIDE DEF a, c, x, new
<1>9. /\ heap' \in [Addrs -> Buffers] /\ heap'[a] = new
      /\ \A d \in Addrs \ {a} : heap'[d] = heap[d]
      /\ op' \in [Tasks -> {NULL} \cup Addrs] /\ op'[k] = a
      /\ \A j \in Tasks \ {k} : op'[j] = op[j]
      /\ todo' \in [Tasks -> Seq(Steps)] /\ todo'[k] = Task
      /\ \A j \in Tasks \ {k} : todo'[j] = todo[j]
  BY <1>1, <1>3, <1>4, <1>5, <1>6
<1>10. cur' \in (1 .. MaxRun) \X (1 .. nprocs) /\ pc' \in {"lock", "launch"}
  BY <1>7, <1>8, NprocsPositive
<1>11. ASSUME NEW j \in Tasks
       PROVE  /\ Running(j)' <=> Running(j) \/ j = k
              /\ Joined(j)' <=> Joined(j)
  <2> DEFINE i == Index(j[2])
             r == j[1]
  <2>1. /\ i \in 1 .. nprocs /\ r \in 1 .. MaxRun
        /\ r = c /\ i = x <=> j = k
    BY <1>2, <1>7
  <2>2. Running(j) <=> r = c /\ i < x
    BY <1>1 DEF Running, c, x
  <2>3. Joined(j) <=> r < c
    BY <1>1 DEF Joined, c, x
  <2>4. /\ Running(j)' <=> /\ r = cur'[1]
                           /\ \/ pc' = "launch" /\ i < cur'[2]
                              \/ pc' \notin {"launch", "return"} /\ i >= cur'[2]
        /\ Joined(j)' <=> \/ r < cur'[1]
                          \/ r = cur'[1] /\ pc' = "return"
                          \/ r = cur'[1] /\ pc' # "launch" /\ i < cur'[2]
    BY DEF Running, Joined
  <2> HIDE DEF i, r
  <2>5. CASE x < nprocs /\ cur' = <<c, x + 1>> /\ pc' = "launch"
    <3>1. cur'[1] = c /\ cur'[2] = x + 1
      BY <2>5
    <3> QED
      BY <1>7, <2>1, <2>2, <2>3, <2>4, <2>5, <3>1, NprocsPositive
  <2>6. CASE x = nprocs /\ cur' = <<c, 1>> /\ pc' = "lock"
    <3>1. cur'[1] = c /\ cur'[2] = 1
      BY <2>6
    <3> QED
      BY <1>7, <2>1, <2>2, <2>3, <2>4, <2>6, <3>1, NprocsPositive
  <2> QED
    BY <1>8, <2>5, <2>6
<1>12. DetachedTypeOK'
  BY <1>1, <1>9, <1>10 DEF DetachedInv, DetachedTypeOK
<1>13. TodoInv'
  BY <1>6, <1>9, <1>11 DEF DetachedInv, TodoInv
<1>14. \A j \in Tasks : Running(j) =>
          /\ j # k /\ op'[j] = op[j] /\ op[j] \in Addrs /\ op[j] # a
          /\ heap'[op'[j]] = heap[op[j]] /\ todo'[j] = todo[j]
  BY <1>2, <1>3, <1>9 DEF DetachedInv, HeapInv
<1>15. HeapInv'
  <2>1. \A j \in Tasks : Running(j)' => op'[j] \in Addrs /\ heap'[op'[j]].live
    BY <1>3, <1>5, <1>9, <1>11, <1>14 DEF DetachedInv, HeapInv
  <2>2. \A i, j \in Tasks : Running(i)' /\ Running(j)' /\ i # j => op'[i] # op'[j]
    <3> SUFFICES ASSUME NEW i \in Tasks, NEW j \in Tasks, i # j,
                        Running(i) \/ i = k, Running(j) \/ j = k
                 PROVE  op'[i] # op'[j]
      BY <1>11
    <3>1. CASE i = k \/ j = k
      BY <1>9, <1>14, <3>1
    <3>2. CASE i # k /\ j # k
      BY <1>14, <3>2 DEF DetachedInv, HeapInv
    <3> QED
      BY <3>1, <3>2
  <2>3. \A d \in Addrs : heap'[d].live => \E j \in Tasks : Running(j)' /\ op'[j] = d
    BY <1>9, <1>11, <1>14 DEF DetachedInv, HeapInv
  <2> QED
    BY <2>1, <2>2, <2>3 DEF HeapInv
<1>16. BufferInv'
  <2> SUFFICES ASSUME NEW j \in Tasks, Running(j) \/ j = k PROVE BufferOf(j)'
    BY <1>11 DEF BufferInv
  <2>1. ~Holds(j) /\ ~Holds(j)' /\ pc # "free" /\ pc' # "free"
    BY <1>1, <1>10 DEF Holds
  <2>2. CASE Running(j)
    <3>1. BufferOf(j)
      BY <2>2 DEF DetachedInv, BufferInv
    <3> QED
      BY <1>14, <2>1, <2>2, <3>1 DEF BufferOf, Sets
  <2>3. CASE j = k
    <3> DEFINE n == Len(todo'[j])
    <3>1. heap'[op'[j]] = new /\ n \in Nat /\ n >= 4
      BY <1>6, <1>9, <2>3
    <3> HIDE DEF n
    <3>2. ~(n \in 1 .. 3) /\ ~(n <= 2)
      BY <3>1
    <3> QED
      BY <1>5, <2>1, <3>1, <3>2 DEF BufferOf, Sets, n
  <2> QED
    BY <2>2, <2>3
<1>17. JoinInv'
  BY <1>1, <1>10, <1>11 DEF DetachedInv, JoinInv
<1> QED
  BY <1>12, <1>13, <1>15, <1>16, <1>17

\* Whatever the caller does, the barrier keeps its own invariant.
LEMMA BarrierStep == IInv /\ [DetachedNext]_allvars => IInv'
<1> SUFFICES ASSUME IInv, [DetachedNext]_allvars PROVE IInv'
  OBVIOUS
<1>1. ASSUME UNCHANGED barrier PROVE IInv'
  BY <1>1 DEF barrier, vars, code, hist, IInv, TypeOK, CountInv, StageInv, Arrived
<1>2. ASSUME NEW k \in Tasks, zyva_det(k) PROVE IInv'
  <2>1. k[2] \in Procs
    BY DEF Tasks
  <2>2. CASE PbWait(k)
    BY <2>1, <2>2, CodeIInv DEF PbWait, Call
  <2>3. CASE Delay(k) \/ Set(k)
    BY <1>1, <2>3 DEF Delay, Set
  <2> QED
    BY <1>2, <2>2, <2>3 DEF zyva_det
<1>3. CASE zyva
  BY <1>1, <1>3 DEF zyva
<1>4. CASE Spurious
  BY <1>1, <1>4, CodeIInv DEF Spurious
<1>5. CASE Stop \/ UNCHANGED allvars
  BY <1>1, <1>5 DEF Stop, allvars, barrier
<1> QED
  BY <1>2, <1>3, <1>4, <1>5 DEF DetachedNext

LEMMA DetachedInitInv == DetachedInit => DetachedInv
<1> SUFFICES ASSUME DetachedInit PROVE DetachedInv
  OBVIOUS
<1> USE DEF DetachedInit
<1>1. IInv
  BY InitIInv
<1>2. \A k \in Tasks : Index(k[2]) \in 1 .. nprocs /\ k[1] \in 1 .. MaxRun
  BY IndexFacts DEF Tasks
<1>3. cur[1] = 1 /\ cur[2] = 1
  OBVIOUS
<1>4. \A k \in Tasks : ~Running(k) /\ ~Joined(k)
  BY <1>2, <1>3, NprocsPositive, MaxRunAssumption DEF Running, Joined
<1>5. DetachedTypeOK
  BY NprocsPositive, MaxRunAssumption DEF DetachedTypeOK, Buffers, Free
<1>6. TodoInv /\ HeapInv /\ BufferInv /\ JoinInv
  BY <1>4 DEF TodoInv, EndsBySet, HeapInv, Free, BufferInv, JoinInv
<1> QED
  BY <1>1, <1>5, <1>6 DEF DetachedInv

LEMMA DetachedStep == DetachedInv /\ [DetachedNext]_allvars => DetachedInv'
<1> SUFFICES ASSUME DetachedInv, [DetachedNext]_allvars
             PROVE  DetachedTypeOK' /\ TodoInv' /\ HeapInv' /\ BufferInv' /\ JoinInv'
  BY BarrierStep DEF DetachedInv
<1>1. ASSUME NEW k \in Tasks, zyva_det(k)
      PROVE  DetachedTypeOK' /\ TodoInv' /\ HeapInv' /\ BufferInv' /\ JoinInv'
  BY <1>1, IterationStep, SetStep DEF zyva_det
<1>2. CASE zyva
  BY <1>2, LaunchStep, OpGetStep, OpFreeStep DEF zyva
<1>3. ASSUME UNCHANGED <<todo, loop, reg, buffers, harness>>
      PROVE  DetachedTypeOK' /\ TodoInv' /\ HeapInv' /\ BufferInv' /\ JoinInv'
  <2> USE <1>3 DEF buffers, harness
  <2>1. This' = This
    BY DEF This
  <2>2. \A j \in Tasks : /\ Running(j)' <=> Running(j)
                         /\ Joined(j)' <=> Joined(j)
                         /\ BufferOf(j)' <=> BufferOf(j)
    BY <2>1 DEF Running, Joined, BufferOf, Sets, Holds
  <2>3. DetachedTypeOK'
    BY DEF DetachedInv, DetachedTypeOK
  <2>4. TodoInv' /\ HeapInv' /\ BufferInv' /\ JoinInv'
    BY <2>1, <2>2 DEF DetachedInv, TodoInv, HeapInv, BufferInv, JoinInv
  <2> QED
    BY <2>3, <2>4
<1>4. CASE Spurious
  BY <1>3, <1>4, SpuriousStep DEF Spurious
<1>5. CASE Stop \/ UNCHANGED allvars
  BY <1>3, <1>5 DEF Stop, allvars
<1> QED
  BY <1>1, <1>2, <1>4, <1>5 DEF DetachedNext

\* The inductive invariant holds in every execution.
THEOREM DetachedInvariance == DetachedSpec => []DetachedInv
<1> QED
  BY DetachedInitInv, DetachedStep, PTL DEF DetachedSpec

\* No thread of any run calls op_set on a buffer that zyva has freed, or that
\* is the buffer of another.
THEOREM BuffersOutlive == DetachedSpec => []NoUseAfterFree
<1>1. ASSUME DetachedInv PROVE NoUseAfterFree
  <2> SUFFICES ASSUME NEW k \in Tasks, todo[k] # <<>>
               PROVE  /\ heap[op[k]].live
                      /\ \A j \in Tasks \ {k} : todo[j] # <<>> => op[j] # op[k]
    BY DEF NoUseAfterFree
  <2>1. \A j \in Tasks : todo[j] # <<>> => Running(j)
    BY <1>1, Working
  <2> QED
    BY <1>1, <2>1 DEF DetachedInv, HeapInv
<1> QED
  BY <1>1, DetachedInvariance, PTL

\* join_detached returns the result of the thread it joins, each thread is
\* joined in its run, and op_set never fails.
THEOREM ResultsDelivered == DetachedSpec => []Delivered
<1>1. ASSUME DetachedInv PROVE Delivered
  <2>1. \A k \in Tasks : k[1] < cur[1] => Joined(k)
    BY DEF Joined
  <2> QED
    BY <1>1, <2>1 DEF DetachedInv, DetachedTypeOK, JoinInv, Delivered
<1> QED
  BY <1>1, DetachedInvariance, PTL

\* The barrier keeps its promise in this harness too.
THEOREM DetachedSynchronises == DetachedSpec => []NoOvertaking
<1>1. ASSUME DetachedInv PROVE NoOvertaking
  BY <1>1, IInvSynchronises DEF DetachedInv
<1> QED
  BY <1>1, DetachedInvariance, PTL
=============================================================================
