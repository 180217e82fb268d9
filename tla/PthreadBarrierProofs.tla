------------------------ MODULE PthreadBarrierProofs ------------------------
(***************************************************************************)
(* pb_wait is correct for every number of threads and of calls, in spite   *)
(* of spurious wake ups and of threads that come back early.               *)
(***************************************************************************)
EXTENDS PthreadBarrier, FiniteSetTheorems, TLAPS

\* p->nprocs is a positive number.
LEMMA NprocsPositive == nprocs \in Nat /\ nprocs > 0
  BY ProcsAssumption, FS_CardinalityType, FS_EmptySet DEF nprocs

\* A new arrival counts for one, and when all are counted all have arrived.
LEMMA ArrivalCounts ==
  ASSUME NEW S \in SUBSET Procs
  PROVE  /\ Cardinality(S) \in Nat
         /\ Cardinality(S) = nprocs => S = Procs
         /\ S # Procs => Cardinality(S) < nprocs
         /\ \A p \in Procs \ S : Cardinality(S \cup {p}) = Cardinality(S) + 1
<1>1. /\ IsFiniteSet(S)
      /\ Cardinality(S) <= nprocs
      /\ Cardinality(S) = nprocs => S = Procs
  BY ProcsAssumption, FS_Subset DEF nprocs
<1>2. Cardinality(S) \in Nat
  BY <1>1, FS_CardinalityType
<1>3. \A p \in Procs \ S : Cardinality(S \cup {p}) = Cardinality(S) + 1
  BY <1>1, FS_AddElement
<1> QED
  BY <1>1, <1>2, <1>3, NprocsPositive

LEMMA InitIInv == Init => IInv
<1> SUFFICES ASSUME Init PROVE IInv
  OBVIOUS
<1> USE DEF Init, pb_create
<1>1. TypeOK /\ StageInv
  BY NprocsPositive DEF TypeOK, StageInv
<1>2. Arrived = {}
  BY DEF Arrived
<1>3. CountInv
  BY <1>2, NprocsPositive, FS_EmptySet DEF CountInv
<1> QED
  BY <1>1, <1>3 DEF IInv

\* Who has arrived when a thread enters pb_wait.
LEMMA Arriving ==
  ASSUME IInv, NEW p \in Procs, Arrive(p)
  PROVE  /\ entered[p] = round /\ left[p] = round
         /\ p \in Procs \ Arrived
         /\ Cardinality(Arrived \cup {p}) = nprocs - (count - 1)
         /\ Last => \A q \in Procs \ {p} : entered[q] = round + 1
         /\ ~Last => count - 1 \in 1 .. nprocs
<1>1. entered[p] = round /\ left[p] = round
  BY DEF IInv, StageInv, Arrive
<1>2. p \in Procs \ Arrived /\ Arrived \in SUBSET Procs
  BY <1>1 DEF Arrived, IInv, TypeOK
<1>3. Cardinality(Arrived \cup {p}) = nprocs - (count - 1)
  BY <1>2, ArrivalCounts, NprocsPositive DEF IInv, TypeOK, CountInv
<1>4. Last => Arrived \cup {p} = Procs
  BY <1>2, <1>3, ArrivalCounts, NprocsPositive DEF Last, IInv, TypeOK
<1>5. Last => \A q \in Procs \ {p} : entered[q] = round + 1
  BY <1>4 DEF Arrived
<1>6. ~Last => count - 1 \in 1 .. nprocs
  BY NprocsPositive DEF Last, IInv, TypeOK
<1> QED
  BY <1>1, <1>2, <1>3, <1>5, <1>6

\* One step of the code preserves the invariant: one case per critical section.
\* Nothing is said of the caller, which may be another function (see PthreadOr).
LEMMA CodeIInv ==
  ASSUME IInv, NEW p \in Procs, Arrive(p) \/ Wake(p) \/ SpuriousWakeUp(p)
  PROVE  IInv'
<1> USE NprocsPositive
<1>1. ASSUME Arrive(p), Close(p) PROVE IInv'
  <2> USE <1>1
  <2>1. \A q \in Procs : entered'[q] = round + 1
    BY Arriving DEF Arrive, Close, IInv, TypeOK
  <2>2. TypeOK'
    BY DEF IInv, TypeOK, Arrive, Close, Leave, Broadcast
  <2>3. Arrived' = {}
    BY <2>1, <2>2 DEF Arrived, Close, IInv, TypeOK
  <2>4. CountInv'
    BY <2>3, FS_EmptySet DEF CountInv, Close
  <2>5. \A q \in Procs \ {p} :
          st[q] \in {"asleep", "awake"} /\ left[q] = round /\ t[q] = turn
    <3>1. \A q \in Procs \ {p} : entered[q] = round + 1
      BY Arriving DEF Close
    <3> QED
      BY <3>1 DEF IInv, TypeOK, StageInv
  <2>6. /\ \A q \in Procs \ {p} :
             st'[q] = "awake" /\ left'[q] = round /\ t'[q] # turn'
        /\ st'[p] = "out" /\ left'[p] = round + 1
    <3>1. left[p] = round
      BY Arriving
    <3> QED
      BY <2>5, <3>1 DEF IInv, TypeOK, Arrive, Close, Leave, Broadcast
  <2>7. StageInv'
    BY <2>1, <2>2, <2>6 DEF StageInv, Close, IInv, TypeOK
  <2> QED
    BY <2>2, <2>4, <2>7 DEF IInv
<1>2. ASSUME Arrive(p), Wait(p) PROVE IInv'
  <2> USE <1>2
  <2>1. /\ entered[p] = round /\ left[p] = round /\ p \notin Arrived
        /\ Cardinality(Arrived \cup {p}) = nprocs - (count - 1)
        /\ count - 1 \in 1 .. nprocs
    BY Arriving DEF Wait
  <2>2. Arrived' = Arrived \cup {p}
    BY <2>1 DEF Arrived, Arrive, Wait, IInv, TypeOK
  <2>3. TypeOK'
    BY <2>1 DEF IInv, TypeOK, Arrive, Wait, Sleep
  <2>4. CountInv'
    <3>1. count' = count - 1
      BY DEF Wait
    <3> QED
      BY <2>1, <2>2, <3>1 DEF CountInv, IInv, TypeOK
  <2>5. StageInv'
    BY <2>1 DEF IInv, TypeOK, StageInv, Arrive, Wait, Sleep
  <2> QED
    BY <2>3, <2>4, <2>5 DEF IInv
<1>3. ASSUME Wake(p) PROVE IInv'
  <2> USE <1>3
  <2>1. TypeOK'
    BY DEF IInv, TypeOK, Wake, Sleep, Leave
  <2>2. Arrived' = Arrived
    BY DEF Arrived, Wake
  <2>3. CountInv'
    BY <2>2 DEF IInv, CountInv, Wake
  <2>4. StageInv'
    BY DEF IInv, TypeOK, StageInv, Wake, Sleep, Leave
  <2> QED
    BY <2>1, <2>3, <2>4 DEF IInv
<1>4. ASSUME SpuriousWakeUp(p) PROVE IInv'
  <2> USE <1>4
  <2>1. TypeOK'
    BY DEF IInv, TypeOK, SpuriousWakeUp, hist
  <2>2. CountInv'
    BY DEF IInv, CountInv, Arrived, SpuriousWakeUp, hist
  <2>3. StageInv'
    BY DEF IInv, TypeOK, StageInv, SpuriousWakeUp, hist
  <2> QED
    BY <2>1, <2>2, <2>3 DEF IInv
<1> QED
  BY <1>1, <1>2, <1>3, <1>4 DEF Arrive

LEMMA StepIInv == IInv /\ [Next]_vars => IInv'
<1> SUFFICES ASSUME IInv, [Next]_vars PROVE IInv'
  OBVIOUS
<1>1. ASSUME UNCHANGED vars PROVE IInv'
  BY <1>1 DEF vars, code, hist, IInv, TypeOK, CountInv, StageInv, Arrived
<1> QED
  BY <1>1, CodeIInv DEF Next, Finished, Call

\* Count, turn and the position of every thread agree in every execution.
THEOREM Invariance == SafetySpec => []IInv
<1> QED
  BY InitIInv, StepIInv, PTL DEF SafetySpec

\* The fields of pb_t keep their ranges: p->count is never 0 when the mutex
\* is free.
THEOREM TypeCorrect == SafetySpec => []TypeOK
<1>1. IInv => TypeOK
  BY DEF IInv
<1> QED
  BY Invariance, <1>1, PTL

\* A thread is at most one call away from the number of completed rounds.
LEMMA IInvSynchronises == IInv => NoOvertaking
<1> SUFFICES ASSUME IInv, NEW p \in Procs, NEW q \in Procs
             PROVE  left[p] <= entered[q]
  BY DEF NoOvertaking
<1>1. left[p] <= round /\ round <= entered[q]
  BY DEF IInv, TypeOK, StageInv
<1> QED
  BY <1>1 DEF IInv, TypeOK

\* No thread returns from its k-th call before all have made k calls.
THEOREM Synchronises == SafetySpec => []NoOvertaking
<1> QED
  BY IInvSynchronises, Invariance, PTL

\* Every critical section of pb_wait is a step of the abstract barrier or
\* leaves it unchanged (its liveness is model-checked).
THEOREM Implements == SafetySpec => B!Init /\ [][B!Next]_(B!vars)
<1>1. Init => B!Init
  BY DEF Init, B!Init
<1>2. ASSUME IInv, [Next]_vars PROVE [B!Next]_(B!vars)
  <2>1. ASSUME NEW p \in Procs, Call(p), Close(p) PROVE B!Pass(p)
    <3>1. Arrive(p)
      BY <2>1 DEF Call
    <3>2. /\ entered[p] = round /\ left[p] = round
          /\ \A q \in Procs \ {p} : entered[q] = round + 1
      BY <1>2, <2>1, <3>1, Arriving DEF Close
    <3> QED
      BY <1>2, <2>1, <3>1, <3>2
         DEF IInv, TypeOK, Call, Arrive, Close, Leave, B!Pass
  <2>2. ASSUME NEW p \in Procs, Call(p), Wait(p) PROVE B!Enter(p)
    <3>1. Arrive(p) /\ entered[p] = left[p]
      BY <1>2, <2>2, Arriving DEF Call
    <3> QED
      BY <2>2, <3>1 DEF Call, Arrive, Wait, Sleep, B!Enter
  <2>3. ASSUME NEW p \in Procs, Wake(p) PROVE B!Leave(p) \/ UNCHANGED B!vars
    <3>1. CASE turn = t[p]
      BY <2>3, <3>1 DEF Wake, Sleep, B!vars
    <3>2. CASE turn # t[p]
      <4>1. entered[p] = round /\ left[p] + 1 = round
        BY <1>2, <2>3, <3>2 DEF IInv, StageInv, Wake
      <4>2. \A q \in Procs : entered[q] >= round
        BY <1>2 DEF IInv, TypeOK, StageInv
      <4> QED
        BY <1>2, <2>3, <3>2, <4>1, <4>2 DEF IInv, TypeOK, Wake, Leave, B!Leave
    <3> QED
      BY <3>1, <3>2
  <2>4. ASSUME NEW p \in Procs, SpuriousWakeUp(p) PROVE UNCHANGED B!vars
    BY <2>4 DEF SpuriousWakeUp, hist, B!vars
  <2>5. ASSUME UNCHANGED vars PROVE UNCHANGED B!vars
    BY <2>5 DEF vars, hist, B!vars
  <2>6. ASSUME NEW p \in Procs, Call(p) PROVE B!Pass(p) \/ B!Enter(p)
    BY <2>1, <2>2, <2>6 DEF Call, Arrive
  <2> QED
    BY <1>2, <2>3, <2>4, <2>5, <2>6 DEF Next, Finished, B!Next
<1> QED
  BY <1>1, <1>2, Invariance, PTL DEF SafetySpec
=============================================================================
