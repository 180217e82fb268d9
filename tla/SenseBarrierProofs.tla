------------------------- MODULE SenseBarrierProofs -------------------------
(***************************************************************************)
(* The user level barrier is correct for every number of threads and of    *)
(* calls.  First its source, SenseBarrier: typing, inductive invariant,    *)
(* the promise of the abstract barrier and its refinement, step by step.   *)
(* Then its instructions, BarrierCode: on each of the six architectures    *)
(* they implement SenseBarrier, and what a thread stores before the        *)
(* barrier is seen after it.                                               *)
(***************************************************************************)
EXTENDS BarrierCode, SequenceTheorems, FiniteSetTheorems, TLAPS

\* p->n is a positive number.
LEMMA NPositive == n \in Nat /\ n > 0
  BY ProcsAssumption, FS_CardinalityType, FS_EmptySet DEF n

\* What the sets of arrivals cost: a new arrival counts for one, and when all
\* are counted all have arrived.
LEMMA ArrivalCounts ==
  ASSUME NEW S \in SUBSET Procs
  PROVE  /\ Cardinality(S) \in Nat
         /\ Cardinality(S) <= n
         /\ Cardinality(S) = n => S = Procs
         /\ \A p \in Procs \ S : Cardinality(S \cup {p}) = Cardinality(S) + 1
<1>1. IsFiniteSet(S) /\ Cardinality(S) <= n /\ (Cardinality(S) = n => S = Procs)
  BY ProcsAssumption, FS_Subset DEF n
<1>2. Cardinality(S) \in Nat
  BY <1>1, FS_CardinalityType
<1>3. \A p \in Procs \ S : Cardinality(S \cup {p}) = Cardinality(S) + 1
  BY <1>1, FS_AddElement
<1> QED
  BY <1>1, <1>2, <1>3

LEMMA InitIInv == Init => IInv
<1> SUFFICES ASSUME Init PROVE IInv
  OBVIOUS
<1> USE DEF Init, barrier_init
<1>1. TypeOK
  BY NPositive DEF TypeOK
<1>2. Arrived = {}
  BY DEF Arrived
<1>3. CountInv
  BY <1>2, NPositive, FS_EmptySet DEF CountInv
<1>4. StageInv
  BY DEF StageInv
<1> QED
  BY <1>1, <1>3, <1>4 DEF IInv

\* One step of the code preserves the invariant: one case per access.
LEMMA StepIInv == IInv /\ [Next]_vars => IInv'
<1> SUFFICES ASSUME IInv, [Next]_vars PROVE IInv'
  OBVIOUS
<1> USE NPositive
<1>1. ASSUME NEW p \in Procs, ReadSense(p) PROVE IInv'
  <2>1. TypeOK'
    BY <1>1 DEF IInv, TypeOK, ReadSense, At, Goto
  <2>2. Arrived' = Arrived
    BY <1>1 DEF Arrived, ReadSense
  <2>3. CountInv'
    BY <1>1, <2>2 DEF IInv, TypeOK, CountInv, ReadSense, At, Goto
  <2>4. StageInv'
    BY <1>1 DEF IInv, TypeOK, StageInv, ReadSense, At, Goto
  <2> QED
    BY <2>1, <2>3, <2>4 DEF IInv
<1>2. ASSUME NEW p \in Procs, Decrement(p) PROVE IInv'
  <2> USE <1>2
  <2>1. \A q \in Procs : pc[q] \notin {"reset", "flip"}
    BY DEF IInv, CountInv, Decrement, At
  <2>2. /\ entered[p] = round
        /\ left[p] = round
        /\ ms[p] = sense
    BY DEF IInv, StageInv, Decrement, At
  <2>3. c > 0 /\ c = n - Cardinality(Arrived)
    BY <2>1 DEF IInv, CountInv
  <2>4. p \in Procs \ Arrived /\ Arrived \in SUBSET Procs
    BY <2>2 DEF Arrived, IInv, TypeOK
  <2>5. Arrived' = Arrived \cup {p}
    BY <2>2 DEF Arrived, Decrement, IInv, TypeOK
  <2>6. Cardinality(Arrived') = Cardinality(Arrived) + 1
    BY <2>4, <2>5, ArrivalCounts
  <2>7. c' = n - Cardinality(Arrived')
    BY <2>3, <2>4, <2>6, ArrivalCounts DEF Decrement
  <2>8. TypeOK'
    BY <2>3 DEF IInv, TypeOK, Decrement, At, Goto
  <2>9. StageInv'
    BY <2>2 DEF IInv, TypeOK, StageInv, Decrement, At, Goto
  <2>10. c - 1 = 0 => Arrived' = Procs
    BY <2>4, <2>5, <2>7, ArrivalCounts DEF Decrement
  <2>11. \A q \in Procs \ {p} : pc'[q] = pc[q]
    BY DEF Decrement, Goto, IInv, TypeOK
  <2>12. c - 1 = 0 => \A q \in Procs \ {p} : pc[q] = "spin"
    BY <2>1, <2>10 DEF IInv, TypeOK, StageInv, Arrived, Decrement
  <2>13. CountInv'
    <3>1. CASE c - 1 = 0
      BY <3>1, <2>7, <2>10, <2>11, <2>12
         DEF CountInv, Decrement, Goto, IInv, TypeOK
    <3>2. CASE c - 1 # 0
      BY <3>2, <2>1, <2>3, <2>7, <2>11
         DEF CountInv, Decrement, Goto, IInv, TypeOK
    <3> QED
      BY <3>1, <3>2
  <2> QED
    BY <2>8, <2>9, <2>13 DEF IInv
<1>3. ASSUME NEW p \in Procs, ResetCount(p) PROVE IInv'
  <2>1. TypeOK'
    BY <1>3 DEF IInv, TypeOK, ResetCount, At, Goto
  <2>2. Arrived' = Arrived
    BY <1>3 DEF Arrived, ResetCount
  <2>3. CountInv'
    BY <1>3, <2>2 DEF IInv, TypeOK, CountInv, ResetCount, At, Goto
  <2>4. StageInv'
    BY <1>3 DEF IInv, TypeOK, StageInv, ResetCount, At, Goto
  <2> QED
    BY <2>1, <2>3, <2>4 DEF IInv
<1>4. ASSUME NEW p \in Procs, FlipSense(p) PROVE IInv'
  <2> USE <1>4
  <2>1. /\ Arrived = Procs
        /\ c = n
        /\ \A q \in Procs \ {p} : pc[q] = "spin"
    BY DEF IInv, CountInv, FlipSense, At
  <2>2. \A q \in Procs : entered[q] = round + 1
    BY <2>1 DEF Arrived
  <2>3. /\ left[p] = round
        /\ ms[p] = sense
        /\ \A q \in Procs \ {p} : left[q] = round /\ ms[q] = sense
    BY <2>1, <2>2 DEF IInv, TypeOK, StageInv, FlipSense, At
  <2>4. TypeOK'
    BY DEF IInv, TypeOK, FlipSense, At, Goto
  <2>5. Arrived' = {}
    BY <2>2 DEF Arrived, FlipSense, IInv, TypeOK
  <2>6. \A q \in Procs : pc'[q] = IF q = p THEN "out" ELSE "spin"
    BY <2>1 DEF FlipSense, Goto, IInv, TypeOK
  <2>7. CountInv'
    BY <2>1, <2>5, <2>6, FS_EmptySet DEF CountInv, FlipSense
  <2>8. StageInv'
    BY <2>2, <2>3, <2>6 DEF IInv, TypeOK, StageInv, FlipSense
  <2> QED
    BY <2>4, <2>7, <2>8 DEF IInv
<1>5. ASSUME NEW p \in Procs, SpinExit(p) PROVE IInv'
  <2>1. TypeOK'
    BY <1>5 DEF IInv, TypeOK, SpinExit, At, Goto
  <2>2. Arrived' = Arrived
    BY <1>5 DEF Arrived, SpinExit
  <2>3. p \notin Arrived
    BY <1>5 DEF IInv, TypeOK, StageInv, SpinExit, At, Arrived
  <2>4. CountInv'
    BY <1>5, <2>2, <2>3 DEF IInv, TypeOK, CountInv, SpinExit, At, Goto
  <2>5. StageInv'
    BY <1>5 DEF IInv, TypeOK, StageInv, SpinExit, At, Goto
  <2> QED
    BY <2>1, <2>4, <2>5 DEF IInv
<1>6. ASSUME UNCHANGED vars PROVE IInv'
  BY <1>6 DEF vars, IInv, TypeOK, CountInv, StageInv, Arrived
<1> QED
  BY <1>1, <1>2, <1>3, <1>4, <1>5, <1>6 DEF Next, barrier_wait, Finished

\* In every execution, for any number of threads, the counter, the sense and
\* the position of every thread agree (IInv): this is type correctness too.
THEOREM Invariance == SafetySpec => []IInv
<1> QED
  BY InitIInv, StepIInv, PTL DEF SafetySpec

\* p->c and p->sense keep their ranges: p->c never becomes negative, however
\* early the fast threads come back.
THEOREM TypeCorrect == SafetySpec => []TypeOK
<1>1. IInv => TypeOK
  BY DEF IInv
<1> QED
  BY Invariance, <1>1, PTL

\* No thread returns from its k-th call before all have arrived k times.
THEOREM Synchronises == SafetySpec => []NoOvertaking
<1>1. ASSUME IInv PROVE NoOvertaking
  <2> SUFFICES ASSUME NEW p \in Procs, NEW q \in Procs
               PROVE  left[p] <= entered[q]
    BY DEF NoOvertaking
  <2>1. left[p] <= round
    BY <1>1 DEF IInv, TypeOK, StageInv
  <2>2. round <= entered[q]
    BY <1>1 DEF IInv, TypeOK, StageInv
  <2> QED
    BY <1>1, <2>1, <2>2 DEF IInv, TypeOK
<1> QED
  BY <1>1, Invariance, PTL

\* Every step of barrier_wait is a step of the abstract barrier or leaves it
\* unchanged (the liveness half of BarrierSpec is model-checked).
THEOREM Implements == SafetySpec => B!Init /\ [][B!Next]_(B!vars)
<1>1. Init => B!Init
  BY DEF Init, B!Init
<1>2. ASSUME IInv, [Next]_vars PROVE [B!Next]_(B!vars)
  <2>1. ASSUME NEW p \in Procs, Decrement(p) PROVE B!Enter(p)
    <3>1. entered[p] = round /\ left[p] = round /\ entered[p] < Rounds
      BY <1>2, <2>1 DEF IInv, StageInv, Decrement, At
    <3> QED
      BY <2>1, <3>1 DEF Decrement, B!Enter
  <2>2. ASSUME NEW p \in Procs, FlipSense(p) PROVE B!Leave(p)
    <3>1. entered[p] = round + 1 /\ left[p] = round /\ Arrived = Procs
      BY <1>2, <2>2 DEF IInv, CountInv, StageInv, FlipSense, At
    <3>2. \A q \in Procs : entered[q] = round + 1
      BY <3>1 DEF Arrived
    <3> QED
      BY <1>2, <2>2, <3>1, <3>2 DEF IInv, TypeOK, FlipSense, B!Leave
  <2>3. ASSUME NEW p \in Procs, SpinExit(p) PROVE B!Leave(p)
    <3>1. entered[p] = round /\ left[p] + 1 = round
      BY <1>2, <2>3 DEF IInv, StageInv, SpinExit, At
    <3>2. \A q \in Procs : entered[q] >= round
      BY <1>2 DEF IInv, TypeOK, StageInv
    <3> QED
      BY <1>2, <2>3, <3>1, <3>2 DEF IInv, TypeOK, SpinExit, B!Leave
  <2>4. ASSUME NEW p \in Procs, ReadSense(p) \/ ResetCount(p)
        PROVE  UNCHANGED B!vars
    BY <2>4 DEF ReadSense, ResetCount, B!vars
  <2>5. ASSUME UNCHANGED vars PROVE UNCHANGED B!vars
    BY <2>5 DEF vars, B!vars
  <2> QED
    BY <1>2, <2>1, <2>2, <2>3, <2>4, <2>5
       DEF Next, barrier_wait, Finished, B!Next
<1> QED
  BY <1>1, <1>2, Invariance, PTL DEF SafetySpec

-----------------------------------------------------------------------------
(***************************************************************************)
(* The instructions.  Annotated states the rule of each kind of            *)
(* instruction: from which note to which it leads, at the next instruction *)
(* and at the target of its branch.  The programs are read here only; the  *)
(* proofs of the actions use the rules, for all the programs at once.      *)
(***************************************************************************)
NoteAt(a, i) == IF i > Len(Programs[a]) THEN "out" ELSE Notes[a][i]

Annotated(a, i) ==
  LET op    == Programs[a][i][1]
      here  == Notes[a][i]
      next  == NoteAt(a, i + 1)
      there == NoteAt(a, Programs[a][i][2])
  IN  \/ op = "ldms" /\ here = "called" /\ next = "read" /\ a # "ppc_lab"
      \/ op = "ldmy" /\ here = "called" /\ next = "read" /\ a = "ppc_lab"
      \/ op = "stmy" /\ here = "back" /\ next = "turned" /\ a = "ppc_lab"
      \/ /\ op = "fence"
         /\ \/ here \in {"called", "taken", "last", "spinning"} /\ next = here
            \/ here = "read" /\ next = "try"
            \/ here = "reset" /\ next = "flip"
            \/ here = "leaving" /\ next \in {"leaving", "back"}
            \/ here = "leaving" /\ next = "out" /\ a # "ppc_lab"
            \/ here = "turned" /\ next = "out"
      \/ op = "stfence" /\ here = "back" /\ next = "back"
      \/ op = "ll" /\ here = "try" /\ next = "linked"
      \/ op = "dec" /\ here = "linked" /\ next = "less"
      \/ op = "dec" /\ here = "drawn" /\ next = "taken"
      \/ /\ op = "sc" /\ Programs[a][i][2] \in Nat \ {0} /\ there = "try"
         /\ \/ here = "less" /\ Programs[a][i][3] = 0 /\ next = "taken"
            \/ here = "linked" /\ Programs[a][i][3] = 1 /\ next = "drawn"
      \/ op = "xadd" /\ here = "read" /\ next = "taken"
      \/ /\ op \in {"bz", "blez"} /\ Programs[a][i][2] \in Nat \ {0}
         /\ here = "taken" /\ there = "last" /\ next = "spinning"
      \/ /\ op = "bnz" /\ Programs[a][i][2] \in Nat \ {0}
         /\ here = "taken" /\ there = "spinning" /\ next = "last"
      \/ /\ op = "b" /\ Programs[a][i][2] \in Nat \ {0}
         /\ \/ here = "leaving" /\ there = "leaving"
            \/ here = "back" /\ there \in {"back", "out"} /\ a # "ppc_lab"
      \/ /\ op = "spin" /\ Programs[a][i][2] \in Nat \ {0}
         /\ here = "spinning" /\ there = "spinning"
         /\ \/ next = "leaving"
            \/ next = "back" /\ a \in {"x86", "aarch64"}
      \/ op = "stc" /\ here = "last" /\ next = "reset"
      \/ op = "sts" /\ here = "flip" /\ next = "leaving"
      \/ op = "sts" /\ here = "reset" /\ next = "leaving" /\ a = "x86"

LEMMA AnnotatedX86 == \A i \in 1 .. Len(x86) : Annotated("x86", i)
<1>1. Programs["x86"] = x86 /\ Len(x86) = 8
  BY DEF Programs, x86
<1>2. \A i \in 1 .. 4 : Annotated("x86", i)
  BY <1>1 DEF Annotated, NoteAt, Notes, x86
<1>3. \A i \in 5 .. 8 : Annotated("x86", i)
  BY <1>1 DEF Annotated, NoteAt, Notes, x86
<1> QED
  BY <1>1, <1>2, <1>3

LEMMA AnnotatedPPC == \A i \in 1 .. Len(ppc) : Annotated("ppc", i)
<1>1. Programs["ppc"] = ppc /\ Len(ppc) = 14
  BY DEF Programs, ppc
<1>2. \A i \in 1 .. 4 : Annotated("ppc", i)
  BY <1>1 DEF Annotated, NoteAt, Notes, ppc
<1>3. \A i \in 5 .. 9 : Annotated("ppc", i)
  BY <1>1 DEF Annotated, NoteAt, Notes, ppc
<1>4. \A i \in 10 .. 14 : Annotated("ppc", i)
  BY <1>1 DEF Annotated, NoteAt, Notes, ppc
<1> QED
  BY <1>1, <1>2, <1>3, <1>4

LEMMA AnnotatedPPCLab == \A i \in 1 .. Len(ppc_lab) : Annotated("ppc_lab", i)
<1>1. Programs["ppc_lab"] = ppc_lab /\ Len(ppc_lab) = 17
  BY DEF Programs, ppc_lab
<1>2. \A i \in 1 .. 4 : Annotated("ppc_lab", i)
  BY <1>1 DEF Annotated, NoteAt, Notes, ppc_lab
<1>3. \A i \in 5 .. 8 : Annotated("ppc_lab", i)
  BY <1>1 DEF Annotated, NoteAt, Notes, ppc_lab
<1>4. \A i \in 9 .. 12 : Annotated("ppc_lab", i)
  BY <1>1 DEF Annotated, NoteAt, Notes, ppc_lab
<1>5. \A i \in 13 .. 17 : Annotated("ppc_lab", i)
  BY <1>1 DEF Annotated, NoteAt, Notes, ppc_lab
<1> QED
  BY <1>1, <1>2, <1>3, <1>4, <1>5

LEMMA AnnotatedARM == \A i \in 1 .. Len(arm) : Annotated("arm", i)
<1>1. Programs["arm"] = arm /\ Len(arm) = 14
  BY DEF Programs, arm
<1>2. \A i \in 1 .. 4 : Annotated("arm", i)
  BY <1>1 DEF Annotated, NoteAt, Notes, arm
<1>3. \A i \in 5 .. 9 : Annotated("arm", i)
  BY <1>1 DEF Annotated, NoteAt, Notes, arm
<1>4. \A i \in 10 .. 14 : Annotated("arm", i)
  BY <1>1 DEF Annotated, NoteAt, Notes, arm
<1> QED
  BY <1>1, <1>2, <1>3, <1>4

LEMMA AnnotatedAArch64 == \A i \in 1 .. Len(aarch64) : Annotated("aarch64", i)
<1>1. Programs["aarch64"] = aarch64 /\ Len(aarch64) = 15
  BY DEF Programs, aarch64
<1>2. \A i \in 1 .. 5 : Annotated("aarch64", i)
  BY <1>1 DEF Annotated, NoteAt, Notes, aarch64
<1>3. \A i \in 6 .. 10 : Annotated("aarch64", i)
  BY <1>1 DEF Annotated, NoteAt, Notes, aarch64
<1>4. \A i \in 11 .. 15 : Annotated("aarch64", i)
  BY <1>1 DEF Annotated, NoteAt, Notes, aarch64
<1> QED
  BY <1>1, <1>2, <1>3, <1>4

LEMMA AnnotatedMIPS == \A i \in 1 .. Len(mips) : Annotated("mips", i)
<1>1. Programs["mips"] = mips /\ Len(mips) = 13
  BY DEF Programs, mips
<1>2. \A i \in 1 .. 4 : Annotated("mips", i)
  BY <1>1 DEF Annotated, NoteAt, Notes, mips
<1>3. \A i \in 5 .. 8 : Annotated("mips", i)
  BY <1>1 DEF Annotated, NoteAt, Notes, mips
<1>4. \A i \in 9 .. 13 : Annotated("mips", i)
  BY <1>1 DEF Annotated, NoteAt, Notes, mips
<1> QED
  BY <1>1, <1>2, <1>3, <1>4

LEMMA AllAnnotated ==
  \A a \in Archs : \A i \in 1 .. Len(Programs[a]) : Annotated(a, i)
  BY ArchsAssumption, AnnotatedX86, AnnotatedPPC, AnnotatedPPCLab, AnnotatedARM,
     AnnotatedAArch64, AnnotatedMIPS DEF Programs

\* barrier_wait starts at its first instruction.
LEMMA Entry ==
  ASSUME NEW a \in Archs
  PROVE  Len(Programs[a]) \in Nat /\ NoteAt(a, 1) = "called"
<1> SUFFICES Len(Programs[a]) \in Nat \ {0} /\ Notes[a][1] = "called"
  BY DEF NoteAt
<1>1. a \in {"x86", "ppc", "ppc_lab", "arm", "aarch64", "mips"}
  BY ArchsAssumption
<1>2. CASE a = "x86"
  BY <1>2 DEF Programs, Notes, x86
<1>3. CASE a = "ppc"
  BY <1>3 DEF Programs, Notes, ppc
<1>4. CASE a = "ppc_lab"
  BY <1>4 DEF Programs, Notes, ppc_lab
<1>5. CASE a = "arm"
  BY <1>5 DEF Programs, Notes, arm
<1>6. CASE a = "aarch64"
  BY <1>6 DEF Programs, Notes, aarch64
<1>7. CASE a = "mips"
  BY <1>7 DEF Programs, Notes, mips
<1> QED
  BY <1>1, <1>2, <1>3, <1>4, <1>5, <1>6, <1>7

(***************************************************************************)
(* What the proofs of the instructions share: the annotation of the        *)
(* instruction a thread is at and of the one a jump leads to, what the     *)
(* buffers hold, and what does not change for the threads that wait.       *)
(***************************************************************************)
LEMMA Noted ==
  ASSUME CodeInv, NEW p \in Procs, ip[p] # 0
  PROVE  /\ ip[p] \in Nat \ {0}
         /\ Note(p) = Notes[arch][ip[p]]
         /\ Annotated(arch, ip[p])
<1>1. arch \in Archs /\ ip[p] \in 1 .. Len(Programs[arch])
  BY DEF CodeInv, MachineTypeOK, Program
<1> QED
  BY <1>1, AllAnnotated DEF Note

LEMMA Jumped ==
  ASSUME CodeInv, NEW p \in Procs, NEW i \in Nat \ {0}, Jump(p, i), arch' = arch
  PROVE  /\ Note(p)' = NoteAt(arch, i)
         /\ \A q \in Procs \ {p} : ip'[q] = ip[q]
         /\ ip' \in [Procs -> Nat]
         /\ \A q \in Procs : ip'[q] <= Len(Program')
<1>1. ip \in [Procs -> Nat] /\ \A q \in Procs : ip[q] <= Len(Program)
  BY DEF CodeInv, MachineTypeOK
<1>2. ip' = [ip EXCEPT ![p] = IF i > Len(Program) THEN 0 ELSE i] /\ Program' = Program
  BY DEF Jump, Program
<1>3. Len(Program) \in Nat
  BY Entry DEF CodeInv, MachineTypeOK, Program
<1>4. CASE i > Len(Program)
  BY <1>1, <1>2, <1>3, <1>4 DEF Note, NoteAt, Program
<1>5. CASE ~(i > Len(Program))
  BY <1>1, <1>2, <1>3, <1>5 DEF Note, NoteAt, Program
<1> QED
  BY <1>4, <1>5

\* The notes at the instruction that follows, and at the target of a branch.
LEMMA Stepped ==
  ASSUME CodeInv, NEW p \in Procs, ip[p] # 0, Step(p), arch' = arch
  PROVE  /\ Note(p)' = NoteAt(arch, ip[p] + 1)
         /\ \A q \in Procs \ {p} : ip'[q] = ip[q]
         /\ ip' \in [Procs -> Nat]
         /\ \A q \in Procs : ip'[q] <= Len(Program')
<1>1. ip[p] + 1 \in Nat \ {0}
  BY Noted
<1> QED
  BY <1>1, Jumped DEF Step

LEMMA Queues ==
  ASSUME NEW x, NEW y
  PROVE  /\ Len(<<>>) = 0 /\ Append(<<>>, x) = <<x>> /\ Append(<<x>>, y) = <<x, y>>
         /\ Len(<<x>>) = 1 /\ SubSeq(<<x>>, 1, 0) \o SubSeq(<<x>>, 2, 1) = <<>>
         /\ Len(<<x, y>>) = 2 /\ SubSeq(<<x, y>>, 1, 0) \o SubSeq(<<x, y>>, 2, 2) = <<y>>
<1> DEFINE s == <<x, y>>
           t == Append(<<x>>, y)
<1>1. Append(<<>>, x) = <<x>> /\ s = t
  <2>1. s \in Seq({x, y}) /\ t \in Seq({x, y})
    OBVIOUS
  <2>2. Len(t) = 2 /\ t[1] = x /\ t[2] = y
    OBVIOUS
  <2>3. s = t
    BY <2>1, <2>2, SeqEqual
  <2>4. Append(<<>>, x) = <<x>>
    OBVIOUS
  <2> QED
    BY <2>3, <2>4
<1>2. Len(<<>>) = 0 /\ Len(<<x>>) = 1 /\ Len(<<x, y>>) = 2
  OBVIOUS
<1>3. SubSeq(<<x>>, 1, 0) = <<>> /\ SubSeq(<<x>>, 2, 1) = <<>> /\ SubSeq(s, 1, 0) = <<>>
  BY SubSeqEmpty
<1>4. <<>> \in Seq({x, y}) /\ <<y>> \in Seq({x, y}) /\ s \in Seq({x, y})
  OBVIOUS
<1>5. <<>> \o <<>> = <<>> /\ <<>> \o <<y>> = <<y>> /\ <<y>> \o <<>> = <<y>>
  BY <1>4, ConcatEmptySeq
<1>6. SubSeq(s, 2, 2) = <<y>>
  <2>1. SubSeq(s, 2, 2) = <<s[2]>> \o SubSeq(s, 3, 2)
    BY <1>2, <1>4, SubSeqRecursiveFirst
  <2>2. SubSeq(s, 3, 2) = <<>>
    BY SubSeqEmpty
  <2> QED
    BY <1>5, <2>1, <2>2
<1> QED
  BY <1>1, <1>2, <1>3, <1>5, <1>6

LEMMA Freshness ==
  ASSUME CodeInv, NEW p \in Procs
  PROVE  /\ Fresh(p) \in [s : {0, 1}, d : BOOLEAN]
         /\ Fresh(p).s = sense
         /\ (\A q \in Procs : data[q] >= calls[p]) => Fresh(p).d
<1>1. sense \in {0, 1}
  BY DEF CodeInv, IInv, TypeOK
<1>2. CASE \A q \in Procs : data[q] >= calls[p]
  BY <1>1, <1>2 DEF Fresh
<1>3. CASE ~ \A q \in Procs : data[q] >= calls[p]
  BY <1>1, <1>3 DEF Fresh
<1> QED
  BY <1>2, <1>3

\* A load of p->sense by a thread that is out of the barrier, or whose buffer
\* is empty, returns what its view or the memory holds.
LEMMA Loads ==
  ASSUME CodeInv, NEW p \in Procs, NEW v \in Loadable(p),
         Note(p) \in {"called", "spinning"}
  PROVE  /\ v \in {view[p].s, sense} /\ (TSO => v = sense)
         /\ Loaded(p, v) \in [s : {0, 1}, d : BOOLEAN]
         /\ Loaded(p, v).s = v
         /\ TSO => Loaded(p, v) = Fresh(p)
<1>1. buf[p] = <<>> \/ buf[p] = <<WordStore(p)>>
  BY DEF CodeInv, ThreadInv, BufferInv
<1>2. {i \in 1 .. Len(buf[p]) : buf[p][i].loc = "s"} = {}
  BY <1>1, Queues DEF WordStore
<1>3. v \in {view[p].s, sense} /\ (TSO => v = sense)
  BY <1>2 DEF Loadable
<1>4. view[p] \in [s : {0, 1}, d : BOOLEAN] /\ sense \in {0, 1}
  BY DEF CodeInv, IInv, TypeOK, MachineTypeOK
<1> QED
  BY <1>3, <1>4, Freshness DEF Loaded

\* The flip of the sense finds the other threads spinning, with the old one;
\* whatever else a thread does leaves what the others rely on.
LEMMA Others ==
  ASSUME CodeInv, NEW q \in Procs, arch' = arch,
         ip'[q] = ip[q], pc'[q] = pc[q], ms'[q] = ms[q], entered'[q] = entered[q],
         calls'[q] = calls[q], r'[q] = r[q], my'[q] = my[q], buf'[q] = buf[q],
         data'[q] = data[q], view'[q] = view[q],
         sense' = sense \/ (pc[q] = "spin" /\ ms[q] = sense),
         q \in resv' => q \in resv /\ c' = c
  PROVE  ThreadInv(q)'
<1>1. Note(q)' = Note(q)
  BY DEF Note
<1>2. ThreadInv(q)
  BY DEF CodeInv
<1>3. PlaceInv(q)'
  BY <1>1, <1>2 DEF ThreadInv, PlaceInv
<1>4. RegisterInv(q)'
  BY <1>1, <1>2 DEF ThreadInv, PlaceInv, RegisterInv
<1>5. BufferInv(q)'
  BY <1>1, <1>2 DEF ThreadInv, BufferInv, WordStore, CountStore, SenseStore, TSO
<1>6. ViewInv(q)'
  <2>1. CASE sense' = sense
    BY <1>1, <1>2, <2>1 DEF ThreadInv, ViewInv
  <2>2. CASE pc[q] = "spin" /\ ms[q] = sense
    BY <1>1, <1>2, <2>2 DEF ThreadInv, ViewInv, PlaceInv
  <2> QED
    BY <2>1, <2>2
<1> QED
  BY <1>3, <1>4, <1>5, <1>6 DEF ThreadInv

\* A step of SenseBarrier, or a stutter, keeps its invariant.
LEMMA Kept ==
  ASSUME CodeInv, [Next]_vars, MachineTypeOK', NEW p \in Procs, ThreadInv(p)',
         \A q \in Procs \ {p} : ThreadInv(q)'
  PROVE  CodeInv'
<1>1. IInv'
  BY StepIInv DEF CodeInv
<1> QED
  BY <1>1 DEF CodeInv

\* A store enters the buffer of its thread.
LEMMA Buffered ==
  ASSUME CodeInv, NEW p \in Procs, NEW loc \in {"d", "c", "s"}, NEW val \in Nat,
         Store(p, loc, val)
  PROVE  /\ buf'[p] = Append(buf[p], [loc |-> loc, val |-> val])
         /\ \A q \in Procs \ {p} : buf'[q] = buf[q]
         /\ buf' \in [Procs -> Seq([loc : {"d", "c", "s"}, val : Nat])]
  BY DEF CodeInv, MachineTypeOK, Store

\* An instruction that SenseBarrier does not see.
LEMMA Silent ==
  ASSUME CodeInv, NEW p \in Procs, UNCHANGED <<vars, arch, calls>>,
         MachineTypeOK', ThreadInv(p)', resv' \subseteq resv \cup {p},
         \A q \in Procs \ {p} :
           /\ ip'[q] = ip[q] /\ r'[q] = r[q] /\ my'[q] = my[q] /\ buf'[q] = buf[q]
           /\ data'[q] = data[q] /\ view'[q] = view[q]
  PROVE  [Next]_vars /\ CodeInv'
<1> UNCHANGED <<c, sense, pc, ms, entered>>
  BY DEF vars
<1>1. ASSUME NEW q \in Procs \ {p} PROVE ThreadInv(q)'
  BY Others
<1> QED
  BY <1>1, Kept

\* When a thread has gone through its k-th call, all have stored their k-th word.
LEMMA Stored ==
  ASSUME CodeInv, NEW p \in Procs, calls[p] = round, NEW q \in Procs
  PROVE  data[q] >= calls[p]
<1>1. /\ entered[q] >= round /\ entered[q] \in Nat /\ round \in Nat
      /\ calls[q] \in Nat /\ data[q] \in Nat
  <2>1. /\ entered[q] \in Nat /\ round \in Nat /\ calls[q] \in Nat /\ data[q] \in Nat
        /\ pc[q] \in {"out", "dec", "reset", "flip", "spin"}
    BY DEF CodeInv, IInv, TypeOK, MachineTypeOK
  <2>2. entered[q] >= round
    BY <2>1 DEF CodeInv, IInv, StageInv
  <2> QED
    BY <2>1, <2>2
<1>2. calls[q] >= entered[q]
  BY <1>1 DEF CodeInv, ThreadInv, PlaceInv
<1>3. CASE data[q] = calls[q]
  BY <1>1, <1>2, <1>3
<1>4. CASE Note(q) \in {"called", "read"} /\ data[q] = calls[q] - 1
  <2>1. calls[q] = entered[q] + 1
    BY <1>4 DEF CodeInv, ThreadInv, PlaceInv
  <2> QED
    BY <1>1, <1>4, <2>1
<1> QED
  BY <1>3, <1>4 DEF CodeInv, ThreadInv, BufferInv

-----------------------------------------------------------------------------
(***************************************************************************)
(* The instructions, one lemma each: it is a step of SenseBarrier or leaves *)
(* it unchanged, and it preserves the invariant.                           *)
(***************************************************************************)
LEMMA CallWaitStep ==
  ASSUME CodeInv, NEW p \in Procs, CallWait(p)
  PROVE  [Next]_vars /\ CodeInv'
<1> USE DEF CallWait
<1>1. Note(p) = "out" /\ Note(p)' = "called" /\ arch' = arch
  <2>1. NoteAt(arch, 1) = "called"
    BY Entry DEF CodeInv, MachineTypeOK
  <2> QED
    BY <2>1, Jumped DEF Note
<1>2. ThreadInv(p) /\ MachineTypeOK
  BY DEF CodeInv
<1>3. buf[p] = <<>> /\ data[p] = calls[p] /\ calls[p] = entered[p] /\ pc[p] = "out"
  BY <1>1, <1>2 DEF ThreadInv, BufferInv, PlaceInv
<1>4. /\ buf'[p] = Append(buf[p], WordStore(p)')
      /\ \A q \in Procs \ {p} : buf'[q] = buf[q]
      /\ buf' \in [Procs -> Seq([loc : {"d", "c", "s"}, val : Nat])]
      /\ calls' \in [Procs -> Nat] /\ calls'[p] = calls[p] + 1
      /\ \A q \in Procs \ {p} : calls'[q] = calls[q]
  <2>1. calls \in [Procs -> Nat] /\ calls[p] + 1 \in Nat
    BY <1>2 DEF MachineTypeOK
  <2>2. calls' \in [Procs -> Nat] /\ calls'[p] = calls[p] + 1
    BY <2>1
  <2> QED
    BY <2>1, <2>2, Buffered DEF WordStore
<1>5. /\ view' \in [Procs -> [s : {0, 1}, d : BOOLEAN]]
      /\ view'[p].s = view[p].s
      /\ \A q \in Procs \ {p} : view'[q] = view[q]
  <2>1. view \in [Procs -> [s : {0, 1}, d : BOOLEAN]]
    BY <1>2 DEF MachineTypeOK
  <2> QED
    BY <2>1
<1> UNCHANGED <<vars, c, sense, pc, ms, entered, arch, r, my, resv, data>>
  BY DEF vars
<1>6. PlaceInv(p)'
  BY <1>1, <1>2, <1>3, <1>4, RoundsAssumption DEF PlaceInv, MachineTypeOK
<1>7. RegisterInv(p)'
  BY <1>1 DEF RegisterInv
<1>8. BufferInv(p)'
  <2>1. buf'[p] = <<WordStore(p)'>>
    BY <1>3, <1>4, Queues
  <2> QED
    BY <1>1, <1>2, <1>3, <1>4, <2>1 DEF BufferInv, MachineTypeOK
<1>9. ViewInv(p)'
  BY <1>1, <1>2, <1>3, <1>5 DEF ThreadInv, ViewInv
<1>10. MachineTypeOK'
  <2>1. ip' \in [Procs -> Nat] /\ \A q \in Procs : ip'[q] <= Len(Program')
    BY <1>1, Jumped
  <2> QED
    BY <1>1, <1>2, <1>4, <1>5, <2>1 DEF MachineTypeOK
<1>11. ASSUME NEW q \in Procs \ {p} PROVE ThreadInv(q)'
  <2>1. ip'[q] = ip[q]
    BY <1>1, Jumped
  <2> QED
    BY <1>4, <1>5, <2>1, Others
<1> QED
  BY <1>6, <1>7, <1>8, <1>9, <1>10, <1>11, Kept DEF ThreadInv

LEMMA LoadMSStep ==
  ASSUME CodeInv, NEW p \in Procs, LoadMS(p)
  PROVE  [Next]_vars /\ CodeInv'
<1> USE DEF LoadMS
<1>1. Note(p) = "called" /\ Note(p)' = "read" /\ arch # "ppc_lab" /\ arch' = arch
  BY Noted, Stepped DEF Is, Op, Program, Annotated
<1>2. ThreadInv(p) /\ MachineTypeOK /\ IInv
  BY DEF CodeInv
<1>3. PICK v \in Loadable(p) : /\ ms' = [ms EXCEPT ![p] = v]
                               /\ view' = [view EXCEPT ![p] = Loaded(p, v)]
  OBVIOUS
<1>4. pc[p] = "out" /\ entered[p] < Rounds /\ v = sense /\ view[p].s = sense
  BY <1>1, <1>2, <1>3, Loads, RoundsAssumption
     DEF ThreadInv, PlaceInv, ViewInv, IInv, TypeOK, MachineTypeOK
<1>5. ReadSense(p)
  BY <1>3, <1>4 DEF ReadSense, At, Goto
<1>6. pc' = [pc EXCEPT ![p] = "dec"] /\ ms'[p] = sense /\ pc'[p] = "dec"
  BY <1>2, <1>3, <1>4 DEF IInv, TypeOK
<1>7. PlaceInv(p)'
  BY <1>1, <1>2, <1>6 DEF ThreadInv, PlaceInv
<1>8. RegisterInv(p)'
  BY <1>1 DEF RegisterInv
<1>9. BufferInv(p)'
  BY <1>1, <1>2 DEF ThreadInv, BufferInv, WordStore
<1>10. ViewInv(p)'
  <2>1. view'[p].s = sense
    BY <1>1, <1>2, <1>3, <1>4, Loads DEF MachineTypeOK
  <2> QED
    BY <1>1, <1>6, <2>1 DEF ViewInv
<1>11. MachineTypeOK'
  <2>1. ip' \in [Procs -> Nat] /\ \A q \in Procs : ip'[q] <= Len(Program')
    BY <1>1, Stepped DEF Is
  <2>2. view' \in [Procs -> [s : {0, 1}, d : BOOLEAN]]
    BY <1>1, <1>2, <1>3, Loads DEF MachineTypeOK
  <2> QED
    BY <1>2, <2>1, <2>2 DEF MachineTypeOK
<1>12. ASSUME NEW q \in Procs \ {p} PROVE ThreadInv(q)'
  BY <1>1, <1>2, <1>3, <1>6, Stepped, Others DEF Is, MachineTypeOK, IInv, TypeOK
<1>13. [Next]_vars
  BY <1>5 DEF Next, barrier_wait
<1> QED
  BY <1>7, <1>8, <1>9, <1>10, <1>11, <1>12, <1>13, Kept DEF ThreadInv

LEMMA LoadMySenseStep ==
  ASSUME CodeInv, NEW p \in Procs, LoadMySense(p)
  PROVE  [Next]_vars /\ CodeInv'
<1> USE DEF LoadMySense
<1>1. Note(p) = "called" /\ Note(p)' = "read" /\ arch = "ppc_lab" /\ arch' = arch
  BY Noted, Stepped DEF Is, Op, Program, Annotated
<1>2. ThreadInv(p) /\ MachineTypeOK /\ IInv
  BY DEF CodeInv
<1>3. pc[p] = "out" /\ entered[p] < Rounds /\ my[p] = sense /\ view[p].s = sense
  BY <1>1, <1>2, RoundsAssumption
     DEF ThreadInv, PlaceInv, ViewInv, IInv, TypeOK, MachineTypeOK
<1>4. ReadSense(p)
  BY <1>3 DEF ReadSense, At, Goto
<1>5. ms'[p] = sense /\ pc'[p] = "dec"
  BY <1>2, <1>3 DEF IInv, TypeOK
<1>6. PlaceInv(p)'
  BY <1>1, <1>2, <1>5 DEF ThreadInv, PlaceInv
<1>7. RegisterInv(p)'
  BY <1>1 DEF RegisterInv
<1>8. BufferInv(p)'
  BY <1>1, <1>2 DEF ThreadInv, BufferInv, WordStore
<1>9. ViewInv(p)'
  BY <1>1, <1>3, <1>5 DEF ViewInv
<1>10. MachineTypeOK'
  BY <1>1, <1>2, Stepped DEF Is, MachineTypeOK
<1>11. ASSUME NEW q \in Procs \ {p} PROVE ThreadInv(q)'
  BY <1>1, <1>2, Stepped, Others DEF Is, IInv, TypeOK
<1>12. [Next]_vars
  BY <1>4 DEF Next, barrier_wait
<1> QED
  BY <1>6, <1>7, <1>8, <1>9, <1>10, <1>11, <1>12, Kept DEF ThreadInv

LEMMA StoreMySenseStep ==
  ASSUME CodeInv, NEW p \in Procs, StoreMySense(p)
  PROVE  [Next]_vars /\ CodeInv'
<1> USE DEF StoreMySense
<1>1. Note(p) = "back" /\ Note(p)' = "turned" /\ arch' = arch
  BY Noted, Stepped DEF Is, Op, Program, Annotated
<1>2. ThreadInv(p) /\ MachineTypeOK /\ IInv /\ UNCHANGED <<c, sense, pc, ms, entered>>
  BY DEF CodeInv, vars
<1>3. my'[p] = sense
  BY <1>1, <1>2 DEF ThreadInv, PlaceInv, ViewInv, MachineTypeOK
<1>4. ThreadInv(p)'
  BY <1>1, <1>2, <1>3
     DEF ThreadInv, PlaceInv, RegisterInv, BufferInv, ViewInv
<1>5. MachineTypeOK'
  <2>1. 1 - ms[p] \in {0, 1}
    BY <1>2 DEF IInv, TypeOK
  <2>2. my' \in [Procs -> {0, 1}]
    BY <1>2, <2>1 DEF MachineTypeOK
  <2> QED
    BY <1>1, <1>2, <2>2, Stepped DEF Is, MachineTypeOK
<1> QED
  BY <1>1, <1>2, <1>4, <1>5, Stepped, Silent DEF Is, MachineTypeOK

LEMMA FenceStep ==
  ASSUME CodeInv, NEW p \in Procs, Fence(p)
  PROVE  [Next]_vars /\ CodeInv'
<1> USE DEF Fence
<1>1. /\ \/ Note(p) \in {"called", "taken", "last", "spinning"} /\ Note(p)' = Note(p)
         \/ Note(p) = "read" /\ Note(p)' = "try"
         \/ Note(p) = "reset" /\ Note(p)' = "flip"
         \/ Note(p) = "leaving" /\ Note(p)' \in {"leaving", "back"}
         \/ Note(p) = "leaving" /\ Note(p)' = "out" /\ arch # "ppc_lab"
         \/ Note(p) = "turned" /\ Note(p)' = "out"
      /\ arch' = arch
  BY Noted, Stepped DEF Is, Op, Program, Annotated
<1>2. ThreadInv(p) /\ MachineTypeOK /\ IInv /\ UNCHANGED <<c, sense, pc, ms, entered>>
  BY DEF CodeInv, vars
<1>3. view'[p] = Fresh(p) /\ view'[p].s = sense
  BY <1>2, Freshness DEF MachineTypeOK
<1>4. PlaceInv(p)'
  BY <1>1, <1>2 DEF ThreadInv, PlaceInv, BufferInv
<1>5. RegisterInv(p)'
  BY <1>1, <1>2 DEF ThreadInv, RegisterInv
<1>6. BufferInv(p)'
  BY <1>1, <1>2 DEF ThreadInv, BufferInv
<1>7. ViewInv(p)'
  <2>1. Note(p)' \in {"out", "back", "turned"} => view'[p].d
    <3> SUFFICES ASSUME Note(p)' \in {"out", "back", "turned"} PROVE view'[p].d
      OBVIOUS
    <3>1. Note(p) \in {"leaving", "turned"} /\ pc[p] = "out"
      BY <1>1, <1>2 DEF ThreadInv, PlaceInv, BufferInv
    <3>2. calls[p] = round
      BY <1>2, <3>1 DEF ThreadInv, PlaceInv, IInv, StageInv
    <3> QED
      BY <1>3, <3>2, Stored, Freshness
  <2>2. (Note(p)' \in {"leaving", "back", "turned"} /\ pc[p] = "out") => sense = 1 - ms[p]
    BY <1>1, <1>2 DEF ThreadInv, ViewInv
  <2>3. arch = "ppc_lab" =>
          my[p] = IF Note(p)' \in {"out", "called", "turned"} THEN sense ELSE ms[p]
    BY <1>1, <1>2 DEF ThreadInv, ViewInv
  <2> QED
    BY <1>1, <1>2, <1>3, <2>1, <2>2, <2>3 DEF ViewInv
<1>8. MachineTypeOK'
  <2>1. view' \in [Procs -> [s : {0, 1}, d : BOOLEAN]]
    BY <1>2, Freshness DEF MachineTypeOK
  <2> QED
    BY <1>1, <1>2, <2>1, Stepped DEF Is, MachineTypeOK
<1> QED
  BY <1>1, <1>2, <1>4, <1>5, <1>6, <1>7, <1>8, Stepped, Silent
     DEF Is, MachineTypeOK, ThreadInv

LEMMA StoreFenceStep ==
  ASSUME CodeInv, NEW p \in Procs, StoreFence(p)
  PROVE  [Next]_vars /\ CodeInv'
<1> USE DEF StoreFence
<1>1. Note(p) = "back" /\ Note(p)' = "back" /\ arch' = arch
  BY Noted, Stepped DEF Is, Op, Program, Annotated
<1>2. ThreadInv(p) /\ MachineTypeOK /\ UNCHANGED <<c, sense, pc, ms, entered>>
  BY DEF CodeInv, vars
<1>3. ThreadInv(p)'
  BY <1>1, <1>2 DEF ThreadInv, PlaceInv, RegisterInv, BufferInv, ViewInv
<1>4. MachineTypeOK'
  BY <1>1, <1>2, Stepped DEF Is, MachineTypeOK
<1> QED
  BY <1>1, <1>3, <1>4, Stepped, Silent DEF Is

LEMMA LoadLinkedStep ==
  ASSUME CodeInv, NEW p \in Procs, LoadLinked(p)
  PROVE  [Next]_vars /\ CodeInv'
<1> USE DEF LoadLinked
<1>1. Note(p) = "try" /\ Note(p)' = "linked" /\ arch' = arch
  BY Noted, Stepped DEF Is, Op, Program, Annotated
<1>2. ThreadInv(p) /\ MachineTypeOK /\ IInv /\ UNCHANGED <<c, sense, pc, ms, entered>>
  BY DEF CodeInv, vars
<1>3. r'[p] = c /\ c \in Int
  BY <1>2, NPositive DEF MachineTypeOK, IInv, TypeOK
<1>4. ThreadInv(p)'
  BY <1>1, <1>2, <1>3 DEF ThreadInv, PlaceInv, RegisterInv, BufferInv, ViewInv
<1>5. MachineTypeOK'
  BY <1>1, <1>2, <1>3, Stepped DEF Is, MachineTypeOK
<1> QED
  BY <1>1, <1>2, <1>4, <1>5, Stepped, Silent DEF Is, MachineTypeOK

LEMMA DecrementRStep ==
  ASSUME CodeInv, NEW p \in Procs, DecrementR(p)
  PROVE  [Next]_vars /\ CodeInv'
<1> USE DEF DecrementR
<1>1. /\ \/ Note(p) = "linked" /\ Note(p)' = "less"
         \/ Note(p) = "drawn" /\ Note(p)' = "taken"
      /\ arch' = arch
  BY Noted, Stepped DEF Is, Op, Program, Annotated
<1>2. ThreadInv(p) /\ MachineTypeOK /\ UNCHANGED <<c, sense, pc, ms, entered>>
  BY DEF CodeInv, vars
<1>3. r'[p] = r[p] - 1 /\ r[p] \in Int
  BY <1>2 DEF MachineTypeOK
<1>4. PlaceInv(p)' /\ BufferInv(p)' /\ ViewInv(p)'
  BY <1>1, <1>2 DEF ThreadInv, PlaceInv, BufferInv, ViewInv
<1>5. RegisterInv(p)'
  BY <1>1, <1>2, <1>3 DEF ThreadInv, RegisterInv
<1>6. MachineTypeOK'
  BY <1>1, <1>2, <1>3, Stepped DEF Is, MachineTypeOK
<1> QED
  BY <1>1, <1>2, <1>4, <1>5, <1>6, Stepped, Silent DEF Is, MachineTypeOK, ThreadInv

LEMMA FailConditionalStep ==
  ASSUME CodeInv, NEW p \in Procs, FailConditional(p)
  PROVE  [Next]_vars /\ CodeInv'
<1> USE DEF FailConditional
<1>1. /\ Note(p) \in {"linked", "less"} /\ NoteAt(arch, Arg(p)) = "try"
      /\ Arg(p) \in Nat \ {0} /\ arch' = arch
  BY Noted DEF Is, Op, Arg, Program, Annotated
<1>2. /\ Note(p)' = "try" /\ ip' \in [Procs -> Nat]
      /\ \A q \in Procs \ {p} : ip'[q] = ip[q]
      /\ \A q \in Procs : ip'[q] <= Len(Program')
  BY <1>1, Jumped
<1>3. ThreadInv(p) /\ MachineTypeOK /\ UNCHANGED <<c, sense, pc, ms, entered>>
  BY DEF CodeInv, vars
<1>4. ThreadInv(p)'
  BY <1>1, <1>2, <1>3 DEF ThreadInv, PlaceInv, RegisterInv, BufferInv, ViewInv
<1>5. MachineTypeOK'
  BY <1>2, <1>3 DEF MachineTypeOK
<1> QED
  BY <1>2, <1>4, <1>5, Silent

LEMMA BranchStep ==
  ASSUME CodeInv, NEW p \in Procs, Branch(p)
  PROVE  [Next]_vars /\ CodeInv'
<1> USE DEF Branch
<1>1. ThreadInv(p) /\ MachineTypeOK /\ UNCHANGED <<c, sense, pc, ms, entered, arch>>
  BY DEF CodeInv, vars
<1>2. ip[p] \in Nat \ {0} /\ Annotated(arch, ip[p]) /\ Note(p) = Notes[arch][ip[p]]
  BY Noted DEF Is
<1>3. PICK i \in Nat \ {0} :
        /\ Jump(p, i)
        /\ \/ Note(p) = "taken" /\ NoteAt(arch, i) = "last" /\ r[p] <= 0
           \/ Note(p) = "taken" /\ NoteAt(arch, i) = "spinning" /\ r[p] # 0
           \/ Note(p) = "taken" /\ NoteAt(arch, i) = "last" /\ r[p] = 0
           \/ Note(p) = "taken" /\ NoteAt(arch, i) = "spinning" /\ ~(r[p] <= 0)
           \/ Note(p) = "leaving" /\ NoteAt(arch, i) = "leaving"
           \/ Note(p) = "back" /\ NoteAt(arch, i) \in {"back", "out"} /\ arch # "ppc_lab"
  <2>1. CASE Is(p, "bz") /\ Jump(p, IF r[p] = 0 THEN Arg(p) ELSE ip[p] + 1)
    <3>1. /\ Arg(p) \in Nat \ {0} /\ ip[p] + 1 \in Nat \ {0} /\ Note(p) = "taken"
          /\ NoteAt(arch, Arg(p)) = "last" /\ NoteAt(arch, ip[p] + 1) = "spinning"
      BY <1>2, <2>1 DEF Is, Op, Arg, Program, Annotated
    <3>2. CASE r[p] = 0
      BY <2>1, <3>1, <3>2
    <3>3. CASE r[p] # 0
      BY <2>1, <3>1, <3>3
    <3> QED
      BY <3>2, <3>3
  <2>2. CASE Is(p, "blez") /\ Jump(p, IF r[p] <= 0 THEN Arg(p) ELSE ip[p] + 1)
    <3>1. /\ Arg(p) \in Nat \ {0} /\ ip[p] + 1 \in Nat \ {0} /\ Note(p) = "taken"
          /\ NoteAt(arch, Arg(p)) = "last" /\ NoteAt(arch, ip[p] + 1) = "spinning"
      BY <1>2, <2>2 DEF Is, Op, Arg, Program, Annotated
    <3>2. CASE r[p] <= 0
      BY <2>2, <3>1, <3>2
    <3>3. CASE ~(r[p] <= 0)
      BY <2>2, <3>1, <3>3
    <3> QED
      BY <3>2, <3>3
  <2>3. CASE Is(p, "bnz") /\ Jump(p, IF r[p] # 0 THEN Arg(p) ELSE ip[p] + 1)
    <3>1. /\ Arg(p) \in Nat \ {0} /\ ip[p] + 1 \in Nat \ {0} /\ Note(p) = "taken"
          /\ NoteAt(arch, Arg(p)) = "spinning" /\ NoteAt(arch, ip[p] + 1) = "last"
      BY <1>2, <2>3 DEF Is, Op, Arg, Program, Annotated
    <3>2. CASE r[p] = 0
      BY <2>3, <3>1, <3>2
    <3>3. CASE r[p] # 0
      BY <2>3, <3>1, <3>3
    <3> QED
      BY <3>2, <3>3
  <2>4. CASE Is(p, "b") /\ Jump(p, Arg(p))
    <3>1. /\ Arg(p) \in Nat \ {0}
          /\ \/ Note(p) = "leaving" /\ NoteAt(arch, Arg(p)) = "leaving"
             \/ /\ Note(p) = "back" /\ NoteAt(arch, Arg(p)) \in {"back", "out"}
                /\ arch # "ppc_lab"
      BY <1>2, <2>4 DEF Is, Op, Arg, Program, Annotated
    <3> QED
      BY <2>4, <3>1
  <2> QED
    BY <2>1, <2>2, <2>3, <2>4
<1>4. /\ Note(p)' = NoteAt(arch, i) /\ ip' \in [Procs -> Nat]
      /\ \A q \in Procs \ {p} : ip'[q] = ip[q]
      /\ \A q \in Procs : ip'[q] <= Len(Program')
  BY <1>1, <1>3, Jumped
<1>5. r[p] \in Int
  BY <1>1 DEF MachineTypeOK
<1>6. PlaceInv(p)'
  BY <1>1, <1>3, <1>4, <1>5 DEF ThreadInv, PlaceInv, RegisterInv
<1>7. RegisterInv(p)'
  BY <1>1, <1>3, <1>4 DEF ThreadInv, RegisterInv
<1>8. BufferInv(p)'
  BY <1>1, <1>3, <1>4 DEF ThreadInv, BufferInv, WordStore, CountStore, SenseStore, TSO
<1>9. ViewInv(p)'
  BY <1>1, <1>3, <1>4 DEF ThreadInv, ViewInv
<1>10. MachineTypeOK'
  BY <1>1, <1>4 DEF MachineTypeOK
<1> QED
  BY <1>4, <1>6, <1>7, <1>8, <1>9, <1>10, Silent DEF ThreadInv

\* The atomic decrement of p->c, by either way: nobody is closing the round, so
\* that p->c is positive.
LEMMA DecrementStep ==
  ASSUME CodeInv, NEW p \in Procs, Decremented(p, c - 1), buf[p] = <<>>,
         Note(p) \in {"read", "linked", "less"}, Note(p)' \in {"drawn", "taken"},
         Note(p)' = "drawn" => r'[p] = c,
         Note(p)' = "taken" => r'[p] = c - 1,
         view'[p] = view[p] \/ view'[p].s = sense,
         MachineTypeOK',
         \A q \in Procs \ {p} : ip'[q] = ip[q] /\ r'[q] = r[q] /\ view'[q] = view[q]
  PROVE  [Next]_vars /\ CodeInv'
<1> USE DEF Decremented
<1>1. ThreadInv(p) /\ MachineTypeOK /\ IInv
  BY DEF CodeInv
<1>2. pc[p] = "dec" /\ calls[p] = entered[p] + 1 /\ data[p] = calls[p]
  BY <1>1 DEF ThreadInv, PlaceInv, BufferInv
<1>3. c \in Nat /\ c > 0
  <2>1. \A q \in Procs : pc[q] \notin {"reset", "flip"}
    BY <1>1, <1>2 DEF IInv, CountInv
  <2> QED
    BY <1>1, <2>1, NPositive DEF IInv, TypeOK, CountInv
<1>4. Decrement(p)
  BY <1>2 DEF Decrement, At, Goto
<1>5. /\ pc'[p] = IF c - 1 = 0 THEN "reset" ELSE "spin"
      /\ entered'[p] = entered[p] + 1
      /\ \A q \in Procs \ {p} : pc'[q] = pc[q] /\ entered'[q] = entered[q]
  BY <1>1 DEF IInv, TypeOK
<1>6. PlaceInv(p)'
  BY <1>1, <1>2, <1>5 DEF ThreadInv, PlaceInv
<1>7. RegisterInv(p)'
  BY <1>3, <1>5 DEF RegisterInv
<1>8. BufferInv(p)'
  BY <1>2 DEF BufferInv
<1>9. ViewInv(p)'
  BY <1>1, <1>2, <1>5 DEF ThreadInv, ViewInv
<1>10. ASSUME NEW q \in Procs \ {p} PROVE ThreadInv(q)'
  BY <1>5, Others
<1>11. [Next]_vars
  BY <1>4 DEF Next, barrier_wait
<1> QED
  BY <1>6, <1>7, <1>8, <1>9, <1>10, <1>11, Kept DEF ThreadInv

LEMMA ExchangeAddStep ==
  ASSUME CodeInv, NEW p \in Procs, ExchangeAdd(p)
  PROVE  [Next]_vars /\ CodeInv'
<1> USE DEF ExchangeAdd
<1>1. Note(p) = "read" /\ Note(p)' = "taken" /\ arch' = arch
  BY Noted, Stepped DEF Is, Op, Program, Annotated, Decremented
<1>2. MachineTypeOK /\ c \in Int
  BY NPositive DEF CodeInv, IInv, TypeOK
<1>3. r'[p] = c - 1 /\ view'[p].s = sense
  BY <1>2, Freshness DEF MachineTypeOK
<1>4. MachineTypeOK'
  <2>1. view' \in [Procs -> [s : {0, 1}, d : BOOLEAN]]
    BY <1>2, Freshness DEF MachineTypeOK
  <2>2. r' \in [Procs -> Int]
    BY <1>2 DEF MachineTypeOK
  <2> QED
    BY <1>1, <1>2, <2>1, <2>2, Stepped DEF Is, MachineTypeOK, Decremented
<1>5. ASSUME NEW q \in Procs \ {p}
      PROVE  ip'[q] = ip[q] /\ r'[q] = r[q] /\ view'[q] = view[q]
  BY <1>1, <1>2, Stepped DEF Is, MachineTypeOK
<1> QED
  BY <1>1, <1>3, <1>4, <1>5, DecrementStep

LEMMA StoreConditionalStep ==
  ASSUME CodeInv, NEW p \in Procs, StoreConditional(p)
  PROVE  [Next]_vars /\ CodeInv'
<1> USE DEF StoreConditional
<1>1. /\ \/ Note(p) = "less" /\ Program[ip[p]][3] = 0 /\ Note(p)' = "taken"
         \/ Note(p) = "linked" /\ Program[ip[p]][3] = 1 /\ Note(p)' = "drawn"
      /\ arch' = arch
  BY Noted, Stepped DEF Is, Op, Program, Annotated, Decremented
<1>2. ThreadInv(p) /\ MachineTypeOK /\ c \in Int /\ r[p] \in Int
  BY NPositive DEF CodeInv, IInv, TypeOK, MachineTypeOK
<1>3. /\ r[p] - Program[ip[p]][3] = c - 1 /\ buf[p] = <<>>
      /\ Note(p)' = "drawn" => r[p] = c
      /\ Note(p)' = "taken" => r[p] = c - 1
  BY <1>1, <1>2 DEF ThreadInv, RegisterInv, BufferInv
<1>4. MachineTypeOK'
  BY <1>1, <1>2, Stepped DEF Is, MachineTypeOK, Decremented
<1>5. Decremented(p, c - 1)
  BY <1>3
<1> QED
  BY <1>1, <1>3, <1>4, <1>5, Stepped, DecrementStep DEF Is

LEMMA SpinStep ==
  ASSUME CodeInv, NEW p \in Procs, Spin(p)
  PROVE  [Next]_vars /\ CodeInv'
<1>1. /\ Note(p) = "spinning" /\ NoteAt(arch, Arg(p)) = "spinning"
      /\ Arg(p) \in Nat \ {0} /\ ip[p] # 0 /\ arch' = arch
      /\ \/ NoteAt(arch, ip[p] + 1) = "leaving"
         \/ NoteAt(arch, ip[p] + 1) = "back" /\ arch \in {"x86", "aarch64"}
  BY Noted DEF Spin, Is, Op, Arg, Program, Annotated
<1>2. ThreadInv(p) /\ MachineTypeOK /\ IInv
  BY DEF CodeInv
<1>3. PICK v \in Loadable(p) :
        /\ view' = [view EXCEPT ![p] = Loaded(p, v)]
        /\ \/ v = ms[p] /\ Jump(p, Arg(p)) /\ UNCHANGED <<pc, left>>
           \/ v # ms[p] /\ Step(p) /\ pc' = [pc EXCEPT ![p] = "out"]
                        /\ left' = [left EXCEPT ![p] = @ + 1]
  BY DEF Spin
<1>4. UNCHANGED <<c, sense, ms, entered, round, arch, r, my, resv, buf, data, calls>>
  BY DEF Spin
<1>5. /\ v \in {ms[p], sense} /\ pc[p] = "spin" /\ buf[p] = <<>>
      /\ data[p] = calls[p] /\ calls[p] = entered[p] /\ calls[p] <= Rounds
      /\ sense \in {0, 1} /\ ms[p] \in {0, 1}
      /\ arch = "ppc_lab" => my[p] = ms[p]
  BY <1>1, <1>2, <1>3, Loads
     DEF ThreadInv, PlaceInv, BufferInv, ViewInv, IInv, TypeOK
<1>6. /\ view' \in [Procs -> [s : {0, 1}, d : BOOLEAN]]
      /\ view'[p].s = v /\ (TSO => view'[p] = Fresh(p))
      /\ \A q \in Procs \ {p} : view'[q] = view[q]
  BY <1>1, <1>2, <1>3, Loads DEF MachineTypeOK
<1>7. CASE v = ms[p] /\ Jump(p, Arg(p)) /\ UNCHANGED <<pc, left>>
  <2>1. /\ Note(p)' = "spinning" /\ ip' \in [Procs -> Nat]
        /\ \A q \in Procs \ {p} : ip'[q] = ip[q]
        /\ \A q \in Procs : ip'[q] <= Len(Program')
    BY <1>1, <1>7, Jumped
  <2>2. PlaceInv(p)' /\ RegisterInv(p)' /\ BufferInv(p)'
    BY <1>4, <1>5, <1>7, <2>1 DEF PlaceInv, RegisterInv, BufferInv
  <2>3. ViewInv(p)'
    BY <1>4, <1>5, <1>6, <1>7, <2>1 DEF ViewInv
  <2>4. MachineTypeOK'
    BY <1>2, <1>4, <1>6, <2>1 DEF MachineTypeOK
  <2>5. UNCHANGED <<vars, arch, calls>>
    BY <1>4, <1>7 DEF vars
  <2> QED
    BY <1>4, <1>6, <2>1, <2>2, <2>3, <2>4, <2>5, Silent DEF ThreadInv
<1>8. CASE /\ v # ms[p] /\ Step(p) /\ pc' = [pc EXCEPT ![p] = "out"]
           /\ left' = [left EXCEPT ![p] = @ + 1]
  <2>1. /\ Note(p)' \in {"leaving", "back"} /\ ip' \in [Procs -> Nat]
        /\ Note(p)' = "back" => arch \in {"x86", "aarch64"}
        /\ \A q \in Procs \ {p} : ip'[q] = ip[q]
        /\ \A q \in Procs : ip'[q] <= Len(Program')
    BY <1>1, <1>8, Stepped
  <2>2. /\ v = sense /\ sense = 1 - ms[p] /\ sense # ms[p] /\ pc'[p] = "out"
        /\ \A q \in Procs \ {p} : pc'[q] = pc[q]
    BY <1>2, <1>5, <1>8 DEF IInv, TypeOK
  <2>3. SpinExit(p)
    BY <1>4, <1>5, <1>8, <2>2 DEF SpinExit, At, Goto
  <2>4. calls[p] = round
    BY <1>2, <1>5, <2>2 DEF IInv, StageInv
  <2>5. PlaceInv(p)' /\ RegisterInv(p)' /\ BufferInv(p)'
    BY <1>4, <1>5, <2>1, <2>2 DEF PlaceInv, RegisterInv, BufferInv
  <2>6. ViewInv(p)'
    <3>1. Note(p)' = "back" /\ arch # "aarch64" => view'[p].d
      BY <1>6, <2>1, <2>4, Stored, Freshness DEF TSO
    <3> QED
      BY <1>4, <1>5, <1>6, <2>1, <2>2, <3>1 DEF ViewInv
  <2>7. MachineTypeOK'
    BY <1>2, <1>4, <1>6, <2>1 DEF MachineTypeOK
  <2>8. ASSUME NEW q \in Procs \ {p} PROVE ThreadInv(q)'
    BY <1>4, <1>6, <2>1, <2>2, Others
  <2>9. [Next]_vars
    BY <2>3 DEF Next, barrier_wait
  <2> QED
    BY <2>5, <2>6, <2>7, <2>8, <2>9, Kept DEF ThreadInv
<1> QED
  BY <1>3, <1>7, <1>8

LEMMA StoreCountStep ==
  ASSUME CodeInv, NEW p \in Procs, StoreCount(p)
  PROVE  [Next]_vars /\ CodeInv'
<1> USE DEF StoreCount
<1>1. Note(p) = "last" /\ Note(p)' = "reset" /\ arch' = arch
  BY Noted, Stepped DEF Is, Op, Program, Annotated
<1>2. ThreadInv(p) /\ MachineTypeOK /\ UNCHANGED <<c, sense, pc, ms, entered>>
  BY DEF CodeInv, vars
<1>3. pc[p] = "reset" /\ buf[p] = <<>> /\ data[p] = calls[p]
  BY <1>1, <1>2 DEF ThreadInv, PlaceInv, BufferInv
<1>4. buf'[p] = <<CountStore>>
  BY <1>3, Buffered, NPositive, Queues DEF CountStore
<1>5. PlaceInv(p)' /\ RegisterInv(p)'
  BY <1>1, <1>2, <1>3 DEF ThreadInv, PlaceInv, RegisterInv
<1>6. BufferInv(p)'
  BY <1>1, <1>2, <1>3, <1>4 DEF BufferInv, CountStore
<1>7. ViewInv(p)'
  BY <1>1, <1>2, <1>3 DEF ThreadInv, ViewInv
<1>8. MachineTypeOK'
  BY <1>1, <1>2, Stepped, Buffered, NPositive DEF Is, MachineTypeOK
<1> QED
  BY <1>1, <1>5, <1>6, <1>7, <1>8, Stepped, Buffered, NPositive, Silent
     DEF Is, ThreadInv

LEMMA StoreSenseStep ==
  ASSUME CodeInv, NEW p \in Procs, StoreSense(p)
  PROVE  [Next]_vars /\ CodeInv'
<1> USE DEF StoreSense
<1>1. /\ \/ Note(p) = "flip"
         \/ Note(p) = "reset" /\ TSO
      /\ Note(p)' = "leaving" /\ arch' = arch
  BY Noted, Stepped DEF Is, Op, Program, Annotated, TSO
<1>2. ThreadInv(p) /\ MachineTypeOK /\ UNCHANGED <<c, sense, pc, ms, entered>>
  BY DEF CodeInv, vars
<1>3. /\ data[p] = calls[p]
      /\ \/ pc[p] = "flip" /\ buf[p] = <<>>
         \/ pc[p] = "reset" /\ buf[p] = <<CountStore>> /\ TSO
  BY <1>1, <1>2 DEF ThreadInv, PlaceInv, BufferInv
<1>4. ms[p] \in {0, 1} /\ 1 - ms[p] \in Nat
  BY DEF CodeInv, IInv, TypeOK
<1>5. \/ pc[p] = "flip" /\ buf'[p] = <<SenseStore(p)>>
      \/ pc[p] = "reset" /\ buf'[p] = <<CountStore, SenseStore(p)>> /\ TSO
  <2>1. buf'[p] = Append(buf[p], SenseStore(p))
    BY <1>4, Buffered DEF SenseStore
  <2>2. /\ Append(<<>>, SenseStore(p)) = <<SenseStore(p)>>
        /\ Append(<<CountStore>>, SenseStore(p)) = <<CountStore, SenseStore(p)>>
    BY Queues
  <2> QED
    BY <1>3, <2>1, <2>2
<1>6. PlaceInv(p)' /\ RegisterInv(p)'
  BY <1>1, <1>2, <1>3 DEF ThreadInv, PlaceInv, RegisterInv
<1>7. BufferInv(p)'
  BY <1>1, <1>2, <1>3, <1>5 DEF BufferInv, CountStore, SenseStore, TSO
<1>8. ViewInv(p)'
  BY <1>1, <1>2, <1>3 DEF ThreadInv, ViewInv
<1>9. MachineTypeOK'
  BY <1>1, <1>2, <1>4, Stepped, Buffered DEF Is, MachineTypeOK
<1> QED
  BY <1>1, <1>4, <1>6, <1>7, <1>8, <1>9, Stepped, Buffered, Silent DEF Is, ThreadInv

\* The first store of the buffer reaches memory: it is the only one that may,
\* the two stores of x86 being in order.
LEMMA DrainStep ==
  ASSUME CodeInv, NEW p \in Procs, Drain(p)
  PROVE  [Next]_vars /\ CodeInv'
<1>1. ThreadInv(p) /\ MachineTypeOK /\ IInv
  BY DEF CodeInv
<1>2. PICK i \in Drainable(p) :
        LET b == buf[p][i] IN
        /\ buf' = [buf EXCEPT ![p] = SubSeq(@, 1, i - 1) \o SubSeq(@, i + 1, Len(@))]
        /\ \/ /\ b.loc = "c"
              /\ c' = b.val /\ resv' = {}
              /\ pc' = [pc EXCEPT ![p] = "flip"]
              /\ UNCHANGED <<sense, left, round, data>>
           \/ /\ b.loc = "s"
              /\ sense' = b.val /\ round' = round + 1
              /\ pc' = [pc EXCEPT ![p] = "out"]
              /\ left' = [left EXCEPT ![p] = @ + 1]
              /\ UNCHANGED <<c, resv, data>>
           \/ /\ b.loc = "d"
              /\ data' = [data EXCEPT ![p] = b.val]
              /\ UNCHANGED <<c, sense, pc, left, round, resv>>
        /\ UNCHANGED <<ms, entered, arch, ip, r, my, view, calls>>
  BY DEF Drain
<1>3. i = 1 /\ buf[p] # <<>>
  <2>1. \A x, y : Len(<<>>) = 0 /\ Len(<<x>>) = 1 /\ Len(<<x, y>>) = 2
    BY Queues
  <2> QED
    BY <1>1, <1>2, <2>1 DEF ThreadInv, BufferInv, Drainable
<1>4. /\ buf'[p] = SubSeq(buf[p], 1, 0) \o SubSeq(buf[p], 2, Len(buf[p]))
      /\ \A q \in Procs \ {p} : buf'[q] = buf[q]
      /\ buf' = [buf EXCEPT ![p] = buf'[p]]
  BY <1>1, <1>2, <1>3 DEF MachineTypeOK
<1>5. Note(p)' = Note(p) /\ Program' = Program /\ TSO' = TSO
  BY <1>2 DEF Note, Program, TSO
<1>6. ms[p] \in {0, 1} /\ sense \in {0, 1} /\ pc \in [Procs -> {"out", "dec", "reset", "flip", "spin"}]
  BY <1>1 DEF IInv, TypeOK
<1>7. ASSUME buf'[p] \in Seq([loc : {"d", "c", "s"}, val : Nat])
      PROVE  buf' \in [Procs -> Seq([loc : {"d", "c", "s"}, val : Nat])]
  <2>1. buf \in [Procs -> Seq([loc : {"d", "c", "s"}, val : Nat])]
    BY <1>1 DEF MachineTypeOK
  <2> QED
    BY <1>4, <1>7, <2>1
<1>8. CASE /\ Note(p) \in {"called", "read"}
           /\ buf[p] = <<WordStore(p)>> /\ data[p] = calls[p] - 1
  <2>1. /\ UNCHANGED <<c, sense, pc, ms, entered, left, round, arch, ip, r, my, resv, view, calls>>
        /\ data' = [data EXCEPT ![p] = calls[p]]
    BY <1>2, <1>3, <1>8 DEF WordStore
  <2>2. buf'[p] = <<>>
    BY <1>4, <1>8, Queues
  <2>3. data'[p] = calls[p] /\ \A q \in Procs \ {p} : data'[q] = data[q]
    BY <1>1, <2>1 DEF MachineTypeOK
  <2>4. PlaceInv(p)' /\ RegisterInv(p)' /\ ViewInv(p)'
    BY <1>1, <1>5, <2>1 DEF ThreadInv, PlaceInv, RegisterInv, ViewInv
  <2>5. BufferInv(p)'
    BY <1>5, <1>8, <2>1, <2>2, <2>3 DEF BufferInv
  <2>6. MachineTypeOK'
    <3>1. buf'[p] \in Seq([loc : {"d", "c", "s"}, val : Nat])
      BY <2>2
    <3> QED
      BY <1>1, <1>5, <1>7, <2>1, <2>3, <3>1 DEF MachineTypeOK
  <2>7. UNCHANGED <<vars, arch, calls>>
    BY <2>1 DEF vars
  <2> QED
    BY <1>4, <2>1, <2>3, <2>4, <2>5, <2>6, <2>7, Silent DEF ThreadInv
<1>9. CASE /\ pc[p] = "reset" /\ data[p] = calls[p]
           /\ \/ Note(p) = "reset" /\ buf[p] = <<CountStore>>
              \/ Note(p) = "leaving" /\ TSO /\ buf[p] = <<CountStore, SenseStore(p)>>
  <2>1. /\ UNCHANGED <<sense, ms, entered, left, round, data, arch, ip, r, my, view, calls>>
        /\ c' = n /\ resv' = {} /\ pc' = [pc EXCEPT ![p] = "flip"]
    BY <1>2, <1>3, <1>9 DEF CountStore
  <2>2. \/ Note(p) = "reset" /\ buf'[p] = <<>>
        \/ Note(p) = "leaving" /\ buf'[p] = <<SenseStore(p)>>
    <3>1. CASE Note(p) = "reset" /\ buf[p] = <<CountStore>>
      BY <1>4, <3>1, Queues
    <3>2. CASE Note(p) = "leaving" /\ buf[p] = <<CountStore, SenseStore(p)>>
      <4>1. buf'[p] = SubSeq(buf[p], 1, 0) \o SubSeq(buf[p], 2, 2)
        BY <1>4, <3>2, Queues
      <4> QED
        BY <3>2, <4>1, Queues
    <3> QED
      BY <1>9, <3>1, <3>2
  <2>3. pc'[p] = "flip" /\ \A q \in Procs \ {p} : pc'[q] = pc[q]
    BY <1>6, <2>1
  <2>4. ResetCount(p)
    BY <1>9, <2>1 DEF ResetCount, At, Goto
  <2>5. PlaceInv(p)' /\ RegisterInv(p)' /\ ViewInv(p)'
    BY <1>1, <1>5, <1>9, <2>1, <2>2, <2>3 DEF ThreadInv, PlaceInv, RegisterInv, ViewInv
  <2>6. BufferInv(p)'
    BY <1>5, <1>9, <2>1, <2>2, <2>3 DEF BufferInv, SenseStore
  <2>7. MachineTypeOK'
    <3>1. SenseStore(p) \in [loc : {"d", "c", "s"}, val : Nat]
      BY <1>6 DEF SenseStore
    <3>2. /\ <<SenseStore(p)>> \in Seq([loc : {"d", "c", "s"}, val : Nat])
          /\ <<>> \in Seq([loc : {"d", "c", "s"}, val : Nat])
      BY <3>1
    <3>3. buf'[p] \in Seq([loc : {"d", "c", "s"}, val : Nat])
      BY <2>2, <3>2
    <3> QED
      BY <1>1, <1>5, <1>7, <2>1, <3>3 DEF MachineTypeOK
  <2>8. ASSUME NEW q \in Procs \ {p} PROVE ThreadInv(q)'
    BY <1>4, <2>1, <2>3, Others
  <2>9. [Next]_vars
    BY <2>4 DEF Next, barrier_wait
  <2> QED
    BY <2>5, <2>6, <2>7, <2>8, <2>9, Kept DEF ThreadInv
<1>10. CASE /\ pc[p] = "flip" /\ data[p] = calls[p] /\ Note(p) = "leaving"
           /\ buf[p] = <<SenseStore(p)>>
  <2>1. /\ UNCHANGED <<c, resv, data, ms, entered, arch, ip, r, my, view, calls>>
        /\ sense' = 1 - ms[p] /\ round' = round + 1
        /\ pc' = [pc EXCEPT ![p] = "out"] /\ left' = [left EXCEPT ![p] = @ + 1]
    BY <1>2, <1>3, <1>10 DEF SenseStore
  <2>2. buf'[p] = <<>>
    BY <1>4, <1>10, Queues
  <2>3. pc'[p] = "out" /\ \A q \in Procs \ {p} : pc'[q] = pc[q]
    BY <1>6, <2>1
  <2>4. FlipSense(p)
    BY <1>10, <2>1 DEF FlipSense, At, Goto
  <2>5. ASSUME NEW q \in Procs \ {p} PROVE pc[q] = "spin" /\ ms[q] = sense
    <3>1. pc[q] = "spin" /\ entered[q] = round + 1 /\ round \in Nat
      BY <1>1, <1>10 DEF IInv, TypeOK, CountInv, Arrived
    <3> QED
      BY <1>1, <3>1 DEF IInv, StageInv
  <2>6. PlaceInv(p)' /\ RegisterInv(p)'
    BY <1>1, <1>5, <1>10, <2>1, <2>3 DEF ThreadInv, PlaceInv, RegisterInv
  <2>7. BufferInv(p)' /\ ViewInv(p)'
    BY <1>1, <1>5, <1>10, <2>1, <2>2, <2>3 DEF ThreadInv, BufferInv, ViewInv
  <2>8. MachineTypeOK'
    <3>1. buf'[p] \in Seq([loc : {"d", "c", "s"}, val : Nat])
      BY <2>2
    <3> QED
      BY <1>1, <1>5, <1>7, <2>1, <2>3, <3>1 DEF MachineTypeOK
  <2>9. ASSUME NEW q \in Procs \ {p} PROVE ThreadInv(q)'
    BY <1>4, <2>1, <2>3, <2>5, Others
  <2>10. [Next]_vars
    BY <2>4 DEF Next, barrier_wait
  <2> QED
    BY <2>6, <2>7, <2>8, <2>9, <2>10, Kept DEF ThreadInv
<1> QED
  BY <1>1, <1>3, <1>8, <1>9, <1>10 DEF ThreadInv, BufferInv

-----------------------------------------------------------------------------
LEMMA CodeInitInv == CodeInit => CodeInv
<1> SUFFICES ASSUME CodeInit PROVE CodeInv
  OBVIOUS
<1> USE DEF CodeInit, Init, barrier_init
<1>1. IInv
  BY InitIInv
<1>2. \A p \in Procs : Note(p) = "out"
  BY DEF Note
<1>3. MachineTypeOK
  <2>1. Len(Program) \in Nat
    BY Entry DEF Program
  <2>2. view \in [Procs -> [s : {0, 1}, d : BOOLEAN]]
    OBVIOUS
  <2> QED
    BY <2>1, <2>2 DEF MachineTypeOK
<1>4. ASSUME NEW p \in Procs PROVE ThreadInv(p)
  BY <1>2, RoundsAssumption DEF ThreadInv, PlaceInv, RegisterInv, BufferInv, ViewInv
<1> QED
  BY <1>1, <1>3, <1>4 DEF CodeInv

\* Each instruction, and each store that reaches memory, is a step of
\* SenseBarrier or leaves it unchanged.
LEMMA CodeStep == CodeInv /\ [CodeNext]_allvars => [Next]_vars /\ CodeInv'
<1> SUFFICES ASSUME CodeInv, [CodeNext]_allvars PROVE [Next]_vars /\ CodeInv'
  OBVIOUS
<1>1. ASSUME NEW p \in Procs, Exec(p) PROVE [Next]_vars /\ CodeInv'
  BY <1>1, CallWaitStep, LoadMSStep, LoadMySenseStep, StoreMySenseStep, FenceStep,
     StoreFenceStep, LoadLinkedStep, DecrementRStep, ExchangeAddStep,
     StoreConditionalStep, FailConditionalStep, BranchStep, SpinStep, StoreCountStep,
     StoreSenseStep DEF Exec
<1>2. ASSUME NEW p \in Procs, Drain(p) PROVE [Next]_vars /\ CodeInv'
  BY <1>2, DrainStep
<1>3. ASSUME UNCHANGED allvars PROVE [Next]_vars /\ CodeInv'
  <2>1. UNCHANGED <<vars, c, sense, pc, ms, entered, left, round,
                    arch, ip, r, my, resv, buf, data, view, calls>>
    BY <1>3 DEF allvars, vars, machine
  <2>2. IInv'
    BY <2>1, StepIInv DEF CodeInv
  <2>3. MachineTypeOK'
    BY <2>1 DEF CodeInv, MachineTypeOK, Program
  <2>4. ASSUME NEW p \in Procs PROVE ThreadInv(p)'
    BY <2>1, Others
  <2> QED
    BY <2>1, <2>2, <2>3, <2>4 DEF CodeInv
<1> QED
  BY <1>1, <1>2, <1>3 DEF CodeNext, CodeFinished

\* The invariant of the instructions holds on each of the six architectures,
\* for any number of threads and of calls: what each thread has in its registers
\* and its buffer, what it may still load, and where it is.
THEOREM CodeInvariance == CodeSafety => []CodeInv
<1> QED
  BY CodeInitInv, CodeStep, PTL DEF CodeSafety

\* The instructions of barrier_wait, on the memory of each architecture,
\* implement its source: the accesses of SenseBarrier, one after the other.
THEOREM CodeImplements == CodeSafety => SafetySpec
<1>1. CodeInit => Init
  BY DEF CodeInit
<1> QED
  BY <1>1, CodeStep, CodeInvariance, PTL DEF CodeSafety, SafetySpec

\* So that no thread returns from its k-th call before all have arrived k times.
THEOREM CodeSynchronises == CodeSafety => []NoOvertaking
  BY CodeImplements, Synchronises, PTL

\* They implement the abstract barrier too (its liveness is model-checked).
THEOREM CodeImplementsBarrier == CodeSafety => B!Init /\ [][B!Next]_(B!vars)
  BY CodeImplements, Implements, PTL

\* Except on AArch64, a thread that is back from its k-th call finds in memory
\* what the others stored before their k-th call, by every load that follows.
THEOREM CodePublishes == CodeSafety => []SeesStores
<1>1. ASSUME CodeInv PROVE SeesStores
  <2> SUFFICES ASSUME arch # "aarch64", NEW p \in Procs, ip[p] = 0 PROVE view[p].d
    BY DEF SeesStores, Sees
  <2> QED
    BY <1>1 DEF CodeInv, ThreadInv, ViewInv, Note
<1> QED
  BY <1>1, CodeInvariance, PTL
=============================================================================
