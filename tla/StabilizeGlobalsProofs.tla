----------------------- MODULE StabilizeGlobalsProofs -----------------------
(***************************************************************************)
(* The or flag and the stabilisation of final values are correct for every *)
(* number of threads, of stores and of uses of the flag.                   *)
(***************************************************************************)
EXTENDS StabilizeGlobals, PthreadBarrierProofs, WellFoundedInduction

SGTypeOK ==
  /\ mem \in Int /\ pending \in [Procs -> Seq(Int)]
  /\ cpy \in [Procs -> Int] /\ found \in [Procs -> {0, 1}]
  /\ pc \in [Procs -> {"test", "fst", "copy", "reinit", "compare", "vote", "voted", "ret"}]
  /\ val \in {0, 1} /\ vote \in [Procs -> {0, 1}] /\ verdict \in [Procs -> {0, 1}]

\* The calls of the or flag alternate: a thread in po_reinit, or back from it,
\* has made an odd number of them.  One that goes round again had a verdict of 1.
PhaseInv ==
  \A p \in Procs :
    /\ pc[p] \in {"test", "fst"} => entered[p] = 0
    /\ pc[p] \in {"compare", "vote"} => Odd(entered[p])
    /\ pc[p] \in {"copy", "reinit", "voted", "ret"} => ~Odd(entered[p])
    /\ pc[p] \in {"voted", "ret"} => entered[p] > 0
    /\ pc[p] \notin {"compare", "voted"} => st[p] = "out"
    /\ pc[p] \in {"copy", "reinit"} /\ entered[p] > 0 => verdict[p] = 1
    /\ pc[p] = "ret" => verdict[p] = 0

Disjunction(S) == IF \E q \in S : vote[q] = 1 THEN 1 ELSE 0

\* val is the disjunction of the bits that have been given in a round of
\* po_wait, and stays so until the last arrival of the next po_reinit.
ValInv == val = IF Odd(round) THEN Disjunction(Arrived) ELSE Disjunction(Procs)

Differ(p) == IF cpy[p] # cpy[_nxt_id(p)] THEN 1 ELSE 0

\* The bits are those of copies that nobody has rewritten since.
FoundInv ==
  /\ \A p \in Procs : pc[p] = "vote" => found[p] = Differ(p)
  /\ Odd(round) => \A p \in Arrived : vote[p] = Differ(p)
  /\ ~Odd(round) /\ round > 0 /\ (\A q \in Procs : vote[q] = 0) =>
       \A p \in Procs : Differ(p) = 0

Copied(p) == pc[p] \notin {"test", "fst", "copy"}

\* A thread that has stores left has copied the last one; when no thread has,
\* one of them has copied what is in memory.
CopyInv ==
  /\ \A p \in Procs : Copied(p) /\ pending[p] # <<>> =>
       cpy[p] = pending[p][Len(pending[p])]
  /\ (\A p \in Procs : Copied(p) /\ pending[p] = <<>>) =>
       \E p \in Procs : cpy[p] = mem

FlagInv == IInv /\ PhaseInv /\ ValInv /\ VerdictInv

SGInv == SGTypeOK /\ FlagInv /\ FoundInv /\ CopyInv
-----------------------------------------------------------------------------
LEMMA OddNext == ~Odd(0) /\ \A k \in Nat : Odd(k + 1) <=> ~Odd(k)
  BY DEF Odd

LEMMA LastOfTail ==
  ASSUME NEW s \in Seq(Int), s # <<>>
  PROVE  /\ Head(s) \in Int /\ Tail(s) \in Seq(Int) /\ s[Len(s)] \in Int
         /\ Tail(s) # <<>> => Tail(s)[Len(Tail(s))] = s[Len(s)]
         /\ Tail(s) = <<>> => Head(s) = s[Len(s)]
<1>1. /\ Len(s) \in Nat /\ Len(s) > 0 /\ Head(s) = s[1] /\ \A i \in 1 .. Len(s) : s[i] \in Int
      /\ Tail(s) \in Seq(Int) /\ Len(Tail(s)) = Len(s) - 1
      /\ \A i \in 1 .. Len(s) - 1 : Tail(s)[i] = s[i + 1]
  OBVIOUS
<1>2. Tail(s) # <<>> <=> Len(Tail(s)) > 0
  <2>1. ASSUME NEW u \in Seq(Int) PROVE u # <<>> <=> Len(u) > 0
    OBVIOUS
  <2> QED
    BY <1>1, <2>1
<1> DEFINE n == Len(s)
           u == Tail(s)
<1> HIDE DEF n, u
<1>3. /\ n \in Nat /\ n > 0 /\ \A i \in 1 .. n : s[i] \in Int
      /\ u # <<>> <=> n - 1 > 0
      /\ \A i \in 1 .. n - 1 : u[i] = s[i + 1]
  BY <1>1, <1>2 DEF n, u
<1>4. 1 \in 1 .. n /\ n \in 1 .. n
  BY <1>3
<1>5. s[1] \in Int /\ s[n] \in Int
  BY <1>3, <1>4
<1>6. ASSUME n - 1 > 0 PROVE u[n - 1] = s[n]
  <2>1. n - 1 \in 1 .. n - 1 /\ (n - 1) + 1 = n
    BY <1>3, <1>6
  <2> QED
    BY <1>3, <2>1
<1>7. ~(n - 1 > 0) => n = 1
  BY <1>3
<1> QED
  BY <1>1, <1>3, <1>5, <1>6, <1>7 DEF n, u

\* What the barrier says of a thread that is not in it.
LEMMA OutOfFlag ==
  ASSUME FlagInv, NEW p \in Procs
  PROVE  /\ st[p] = "out" => entered[p] = round /\ left[p] = round
         /\ entered[p] \in Nat /\ round \in Nat
         /\ p \in Arrived <=> entered[p] = round + 1
  BY DEF FlagInv, IInv, TypeOK, StageInv, Arrived

\* The threads that a thread may come across, between two uses of the flag.
LEMMA NobodyCompares ==
  ASSUME FlagInv, NEW p \in Procs, NEW q \in Procs, At(p, "copy"), At(q, "compare") \/ At(q, "vote")
  PROVE  FALSE
<1>1. entered[p] = round /\ entered[q] = round
  BY OutOfFlag DEF At
<1>2. ~Odd(entered[p]) /\ Odd(entered[q])
  BY DEF At, FlagInv, PhaseInv
<1> QED
  BY <1>1, <1>2
-----------------------------------------------------------------------------
(* The steps outside of the or flag.                                        *)
LEMMA MoveFlag ==
  ASSUME SGTypeOK, FlagInv, NEW p \in Procs,
         FstArrive(p) \/ FstLeave(p) \/ Copy(p) \/ Compare(p) \/ Decide(p) \/ Drain(p)
  PROVE  FlagInv'
<1>1. UNCHANGED <<count, turn, st, t, entered, left, round, val, vote, verdict>>
  BY DEF FstArrive, FstLeave, Copy, Compare, Decide, Drain, OrFlagUnchanged, orVars, vars, code, hist
<1>2. IInv'
  BY <1>1 DEF FlagInv, IInv, TypeOK, CountInv, StageInv, Arrived
<1>3. ValInv' /\ VerdictInv'
  BY <1>1 DEF FlagInv, ValInv, VerdictInv, Disjunction, Arrived
<1>4. PhaseInv'
  <2>1. /\ pc'[p] # pc[p] => st[p] = "out"
        /\ \/ pc'[p] = pc[p]
           \/ pc[p] = "test" /\ pc'[p] = "fst"
           \/ pc[p] = "fst" /\ pc'[p] = "copy"
           \/ pc[p] = "copy" /\ pc'[p] = "reinit"
           \/ pc[p] = "compare" /\ pc'[p] = "vote"
           \/ pc[p] = "voted" /\ verdict[p] = 0 /\ pc'[p] = "ret"
           \/ pc[p] = "voted" /\ verdict[p] # 0 /\ pc'[p] = "copy"
        /\ \A q \in Procs \ {p} : pc'[q] = pc[q]
    BY DEF FstArrive, FstLeave, Copy, Compare, Decide, Drain, At, Goto, SGTypeOK
  <2>2. verdict[p] \in {0, 1} /\ ~Odd(0) /\ entered[p] \in Nat
    BY OddNext, OutOfFlag DEF SGTypeOK
  <2> HIDE DEF Odd
  <2>3. ASSUME NEW q \in Procs \ {p}
        PROVE  /\ pc'[q] \in {"test", "fst"} => entered[q] = 0
               /\ pc'[q] \in {"compare", "vote"} => Odd(entered[q])
               /\ pc'[q] \in {"copy", "reinit", "voted", "ret"} => ~Odd(entered[q])
               /\ pc'[q] \in {"voted", "ret"} => entered[q] > 0
               /\ pc'[q] \notin {"compare", "voted"} => st[q] = "out"
               /\ pc'[q] \in {"copy", "reinit"} /\ entered[q] > 0 => verdict[q] = 1
               /\ pc'[q] = "ret" => verdict[q] = 0
    BY <2>1 DEF FlagInv, PhaseInv
  <2>4. /\ pc[p] \in {"test", "fst"} => entered[p] = 0
        /\ pc[p] \in {"compare", "vote"} => Odd(entered[p])
        /\ pc[p] \in {"copy", "reinit", "voted", "ret"} => ~Odd(entered[p])
        /\ pc[p] \in {"voted", "ret"} => entered[p] > 0
        /\ pc[p] \notin {"compare", "voted"} => st[p] = "out"
        /\ pc[p] \in {"copy", "reinit"} /\ entered[p] > 0 => verdict[p] = 1
        /\ pc[p] = "ret" => verdict[p] = 0
    BY DEF FlagInv, PhaseInv
  <2>5. /\ pc'[p] \in {"test", "fst"} => entered[p] = 0
        /\ pc'[p] \in {"compare", "vote"} => Odd(entered[p])
        /\ pc'[p] \in {"copy", "reinit", "voted", "ret"} => ~Odd(entered[p])
        /\ pc'[p] \in {"voted", "ret"} => entered[p] > 0
        /\ pc'[p] \notin {"compare", "voted"} => st[p] = "out"
        /\ pc'[p] \in {"copy", "reinit"} /\ entered[p] > 0 => verdict[p] = 1
        /\ pc'[p] = "ret" => verdict[p] = 0
    BY <2>1, <2>2, <2>4
  <2>6. \A q \in Procs : Odd(entered[q])' <=> Odd(entered[q])
    BY <1>1 DEF Odd
  <2> QED
    BY <1>1, <2>3, <2>5, <2>6 DEF PhaseInv
<1> QED
  BY <1>2, <1>3, <1>4 DEF FlagInv

LEMMA MoveType ==
  ASSUME SGAssumption, SGTypeOK, NEW p \in Procs,
         FstArrive(p) \/ FstLeave(p) \/ Copy(p) \/ Compare(p) \/ Decide(p) \/ Drain(p)
  PROVE  SGTypeOK'
<1>1. UNCHANGED <<val, vote, verdict>>
  BY DEF FstArrive, FstLeave, Copy, Compare, Decide, Drain, OrFlagUnchanged, orVars
<1>2. CASE FstArrive(p) \/ FstLeave(p) \/ Compare(p) \/ Decide(p)
  BY <1>1, <1>2 DEF FstArrive, FstLeave, Compare, Decide, Goto, SGTypeOK
<1>3. CASE Copy(p)
  <2>1. View(p) \in Int
    BY LastOfTail DEF View, SGTypeOK
  <2> QED
    BY <1>1, <1>3, <2>1 DEF Copy, Goto, SGTypeOK
<1>4. CASE Drain(p)
  <2>1. Head(pending[p]) \in Int /\ Tail(pending[p]) \in Seq(Int)
    BY <1>4, LastOfTail DEF Drain, SGTypeOK
  <2> QED
    BY <1>1, <1>4, <2>1 DEF Drain, SGTypeOK
<1> QED
  BY <1>2, <1>3, <1>4

LEMMA MoveFound ==
  ASSUME SGAssumption, SGTypeOK, FlagInv, FoundInv, NEW p \in Procs,
         FstArrive(p) \/ FstLeave(p) \/ Copy(p) \/ Compare(p) \/ Decide(p) \/ Drain(p)
  PROVE  FoundInv'
<1>1. UNCHANGED <<entered, round, vote>> /\ Arrived' = Arrived /\ Arrived \subseteq Procs
  BY DEF FstArrive, FstLeave, Copy, Compare, Decide, Drain, OrFlagUnchanged, orVars, vars, hist, Arrived
<1> HIDE DEF Odd
<1>0. Odd(round)' <=> Odd(round)
  BY <1>1 DEF Odd
<1>2. CASE Copy(p)
  <2>1. entered[p] = round /\ ~Odd(round)
    BY <1>2, OutOfFlag DEF Copy, At, FlagInv, PhaseInv
  <2>2. \A q \in Procs : pc'[q] # "vote"
    <3>1. pc'[p] = "reinit" /\ \A q \in Procs \ {p} : pc'[q] = pc[q]
      BY <1>2 DEF Copy, Goto, SGTypeOK
    <3>2. \A q \in Procs : pc[q] = "vote" => st[q] = "out"
      BY DEF FlagInv, PhaseInv
    <3> QED
      BY <1>2, <3>1, <3>2, NobodyCompares DEF Copy, At
  <2>3. round > 0 => \E q \in Procs : vote[q] = 1
    <3>1. round > 0 => verdict[p] = 1
      BY <1>2, <2>1 DEF Copy, At, FlagInv, PhaseInv
    <3>2. st[p] = "out"
      BY <1>2 DEF Copy, At
    <3> QED
      BY <2>1, <3>1, <3>2 DEF FlagInv, VerdictInv
  <2> QED
    BY <1>0, <1>1, <2>1, <2>2, <2>3 DEF FoundInv, SGTypeOK
<1>3. CASE ~Copy(p)
  <2>1. UNCHANGED cpy
    BY <1>3 DEF FstArrive, FstLeave, Compare, Decide, Drain
  <2>2. \A q \in Procs : Differ(q)' = Differ(q)
    BY <2>1 DEF Differ, _nxt_id
  <2>3. \A q \in Procs : pc'[q] = "vote" => found'[q] = Differ(q)
    <3>1. CASE Compare(p)
      BY <3>1 DEF Compare, Goto, SGTypeOK, FoundInv, Differ
    <3>2. CASE ~Compare(p)
      <4>1. UNCHANGED found /\ \A q \in Procs : pc'[q] = "vote" => pc[q] = "vote"
        BY <1>3, <3>2 DEF FstArrive, FstLeave, Decide, Drain, Goto, SGTypeOK
      <4> QED
        BY <4>1 DEF FoundInv
    <3> QED
      BY <3>1, <3>2
  <2> QED
    BY <1>0, <1>1, <2>2, <2>3 DEF FoundInv
<1> QED
  BY <1>2, <1>3

LEMMA MoveCopy ==
  ASSUME SGAssumption, SGTypeOK, CopyInv, NEW p \in Procs,
         FstArrive(p) \/ FstLeave(p) \/ Copy(p) \/ Compare(p) \/ Decide(p) \/ Drain(p)
  PROVE  CopyInv'
<1>1. CASE FstArrive(p) \/ FstLeave(p) \/ Compare(p) \/ Decide(p)
  <2>1. UNCHANGED <<mem, pending, cpy>> /\ \A q \in Procs : Copied(q)' => Copied(q)
    BY <1>1 DEF FstArrive, FstLeave, Compare, Decide, At, Goto, Copied, SGTypeOK
  <2> QED
    BY <2>1 DEF CopyInv
<1>2. CASE Copy(p)
  <2>1. /\ UNCHANGED <<mem, pending>> /\ cpy' = [cpy EXCEPT ![p] = View(p)]
        /\ \A q \in Procs \ {p} : Copied(q)' <=> Copied(q)
    BY <1>2 DEF Copy, Goto, Copied, SGTypeOK
  <2>2. /\ cpy'[p] = IF pending[p] = <<>> THEN mem ELSE pending[p][Len(pending[p])]
        /\ \A q \in Procs \ {p} : cpy'[q] = cpy[q]
    BY <2>1 DEF View, SGTypeOK
  <2> QED
    BY <2>1, <2>2 DEF CopyInv
<1>3. CASE Drain(p)
  <2>1. /\ UNCHANGED <<pc, cpy>> /\ \A q \in Procs \ {p} : pending'[q] = pending[q]
        /\ pending'[p] = Tail(pending[p]) /\ mem' = Head(pending[p])
        /\ pending[p] \in Seq(Int) /\ pending[p] # <<>>
    BY <1>3 DEF Drain, SGTypeOK
  <2>2. \A q \in Procs : Copied(q)' <=> Copied(q)
    BY <2>1 DEF Copied
  <2>3. ASSUME NEW q \in Procs, Copied(q), pending'[q] # <<>>
        PROVE  cpy[q] = pending'[q][Len(pending'[q])]
    <3>1. CASE q = p
      BY <2>1, <2>3, <3>1, LastOfTail DEF CopyInv
    <3>2. CASE q # p
      BY <2>1, <2>3, <3>2 DEF CopyInv
    <3> QED
      BY <3>1, <3>2
  <2>4. ASSUME \A q \in Procs : Copied(q) /\ pending'[q] = <<>> PROVE cpy[p] = mem'
    BY <2>1, <2>4, LastOfTail DEF CopyInv
  <2> QED
    BY <2>1, <2>2, <2>3, <2>4 DEF CopyInv
<1> QED
  BY <1>1, <1>2, <1>3
-----------------------------------------------------------------------------
(* The or flag.                                                             *)
LEMMA FlagCopy ==
  ASSUME SGTypeOK, CopyInv, NEW p \in Procs,
         UNCHANGED <<mem, pending, cpy>>, \A q \in Procs : Copied(q)' => Copied(q)
  PROVE  CopyInv'
  BY DEF CopyInv

LEMMA StepReinit ==
  ASSUME SGAssumption, SGInv, NEW p \in Procs, Reinit(p)
  PROVE  SGInv'
<1>1. /\ UNCHANGED <<mem, pending, cpy, found, vote, verdict>> /\ Arrive(p)
      /\ pc[p] = "reinit" /\ st[p] = "out" /\ pc' = [pc EXCEPT ![p] = "compare"]
      /\ val' = IF Last THEN 0 ELSE val
  BY DEF Reinit, At, Goto, po_reinit
<1>2. SGTypeOK /\ FlagInv /\ FoundInv /\ CopyInv /\ IInv
  BY DEF SGInv, FlagInv
<1>3. SGTypeOK'
  BY <1>1, <1>2 DEF SGTypeOK
<1>4. IInv'
  BY <1>1, <1>2, CodeIInv
<1>5. /\ entered[p] = round /\ round \in Nat /\ ~Odd(round) /\ Odd(round + 1)
      /\ entered' = [entered EXCEPT ![p] = @ + 1] /\ entered'[p] = round + 1
      /\ \A q \in Procs \ {p} : entered'[q] = entered[q] /\ pc'[q] = pc[q]
      /\ pc'[p] = "compare"
  <2>1. entered[p] = round /\ round \in Nat /\ ~Odd(entered[p])
    BY <1>1, <1>2, OutOfFlag DEF FlagInv, PhaseInv
  <2>2. entered' = [entered EXCEPT ![p] = @ + 1]
    BY <1>1 DEF Arrive
  <2> QED
    BY <1>1, <1>2, <2>1, <2>2, OddNext DEF SGTypeOK, IInv, TypeOK
<1> HIDE DEF Odd
\* Nobody leaves the flag but p, if it is the last.
<1>6. \A q \in Procs \ {p} : st'[q] = "out" <=> st[q] = "out"
  BY <1>1, <1>2 DEF Arrive, Close, Wait, Leave, Sleep, Broadcast, IInv, TypeOK
<1>7. PhaseInv'
  <2>1. \A q \in Procs : Odd(entered'[q]) <=> Odd(entered[q])'
    BY DEF Odd
  <2>2. ASSUME NEW q \in Procs \ {p}
        PROVE  /\ pc'[q] \in {"test", "fst"} => entered'[q] = 0
               /\ pc'[q] \in {"compare", "vote"} => Odd(entered'[q])
               /\ pc'[q] \in {"copy", "reinit", "voted", "ret"} => ~Odd(entered'[q])
               /\ pc'[q] \in {"voted", "ret"} => entered'[q] > 0
               /\ pc'[q] \notin {"compare", "voted"} => st'[q] = "out"
               /\ pc'[q] \in {"copy", "reinit"} /\ entered'[q] > 0 => verdict'[q] = 1
               /\ pc'[q] = "ret" => verdict'[q] = 0
    BY <1>1, <1>2, <1>5, <1>6 DEF FlagInv, PhaseInv
  <2> QED
    BY <1>5, <2>1, <2>2 DEF PhaseInv
<1>8. CASE Last
  <2>1. round' = round + 1 /\ \A q \in Procs : entered'[q] = round'
    <3>1. round' = round + 1
      BY <1>1, <1>8 DEF Arrive, Close, Wait
    <3>2. \A q \in Procs \ {p} : entered[q] = round + 1
      BY <1>1, <1>2, <1>8, Arriving
    <3> QED
      BY <1>5, <3>1, <3>2
  <2>2. Odd(round') <=> Odd(round)'
    BY DEF Odd
  <2>3. Arrived' = {} /\ Odd(round)' /\ val' = 0
    BY <1>1, <1>5, <1>8, <2>1, <2>2 DEF Arrived
  <2>4. ValInv'
    BY <2>3 DEF ValInv, Disjunction
  <2>5. VerdictInv'
    <3>1. \A q \in Procs : Odd(entered[q])'
      BY <1>5, <2>1 DEF Odd
    <3> QED
      BY <3>1 DEF VerdictInv
  <2>6. FoundInv'
    <3>1. \A q \in Procs : pc'[q] = "vote" => found'[q] = Differ(q)'
      BY <1>1, <1>2, <1>5 DEF FoundInv, Differ, _nxt_id
    <3> QED
      BY <2>3, <3>1 DEF FoundInv
  <2>7. CopyInv'
    BY <1>1, <1>2, <1>5, FlagCopy DEF Copied
  <2> QED
    BY <1>3, <1>4, <1>7, <2>4, <2>5, <2>6, <2>7 DEF SGInv, FlagInv
<1>9. CASE ~Last
  <2>1. UNCHANGED <<round, val>> /\ st'[p] # "out"
    BY <1>1, <1>2, <1>9 DEF Arrive, Close, Wait, Sleep, IInv, TypeOK
  <2>2. Odd(round)' <=> Odd(round)
    BY <2>1 DEF Odd
  <2>3. ValInv'
    BY <1>1, <1>2, <1>5, <2>1, <2>2 DEF FlagInv, ValInv, Disjunction
  <2>4. VerdictInv'
    <3>1. \A q \in Procs \ {p} : Odd(entered[q])' <=> Odd(entered[q])
      BY <1>5 DEF Odd
    <3> QED
      BY <1>1, <1>2, <1>5, <1>6, <2>1, <3>1 DEF FlagInv, VerdictInv
  <2>5. FoundInv'
    <3>1. \A q \in Procs : Differ(q)' = Differ(q)
      BY <1>1 DEF Differ, _nxt_id
    <3> QED
      BY <1>1, <1>2, <1>5, <2>1, <2>2, <3>1 DEF FoundInv
  <2>6. CopyInv'
    BY <1>1, <1>2, <1>5, FlagCopy DEF Copied
  <2> QED
    BY <1>3, <1>4, <1>7, <2>3, <2>4, <2>5, <2>6 DEF SGInv, FlagInv
<1> QED
  BY <1>8, <1>9

LEMMA StepVote ==
  ASSUME SGAssumption, SGInv, NEW p \in Procs, Vote(p)
  PROVE  SGInv'
<1>1. /\ UNCHANGED <<mem, pending, cpy, found>> /\ Arrive(p)
      /\ pc[p] = "vote" /\ st[p] = "out" /\ pc' = [pc EXCEPT ![p] = "voted"]
      /\ val' = Or(val, found[p])
      /\ vote' = [vote EXCEPT ![p] = found[p]]
      /\ verdict' = IF Last THEN [verdict EXCEPT ![p] = val'] ELSE verdict
  BY DEF Vote, At, Goto, po_wait
<1>2. SGTypeOK /\ FlagInv /\ FoundInv /\ CopyInv /\ IInv
  BY DEF SGInv, FlagInv
<1>3. SGTypeOK'
  BY <1>1, <1>2 DEF SGTypeOK, Or
<1>4. IInv'
  BY <1>1, <1>2, CodeIInv
<1>5. /\ entered[p] = round /\ round \in Nat /\ Odd(round) /\ ~Odd(round + 1)
      /\ entered'[p] = round + 1 /\ p \notin Arrived /\ Arrived \subseteq Procs
      /\ \A q \in Procs \ {p} : entered'[q] = entered[q] /\ pc'[q] = pc[q]
      /\ pc'[p] = "voted"
  <2>1. entered[p] = round /\ round \in Nat /\ Odd(entered[p])
    BY <1>1, <1>2, OutOfFlag DEF FlagInv, PhaseInv
  <2>2. entered' = [entered EXCEPT ![p] = @ + 1]
    BY <1>1 DEF Arrive
  <2> QED
    BY <1>1, <1>2, <2>1, <2>2, OddNext DEF SGTypeOK, IInv, TypeOK, Arrived
<1> HIDE DEF Odd
<1>6. \A q \in Procs \ {p} : st'[q] = "out" <=> st[q] = "out"
  BY <1>1, <1>2 DEF Arrive, Close, Wait, Leave, Sleep, Broadcast, IInv, TypeOK
<1>7. \A q \in Procs \ {p} : vote'[q] = vote[q] /\ verdict'[q] = verdict[q]
  BY <1>1, <1>2 DEF SGTypeOK
<1>8. vote'[p] = found[p] /\ found[p] = Differ(p) /\ found[p] \in {0, 1} /\ val \in {0, 1}
  BY <1>1, <1>2 DEF SGTypeOK, FoundInv
<1>9. PhaseInv'
  <2>1. \A q \in Procs : Odd(entered'[q]) <=> Odd(entered[q])'
    BY DEF Odd
  <2>2. ASSUME NEW q \in Procs \ {p}
        PROVE  /\ pc'[q] \in {"test", "fst"} => entered'[q] = 0
               /\ pc'[q] \in {"compare", "vote"} => Odd(entered'[q])
               /\ pc'[q] \in {"copy", "reinit", "voted", "ret"} => ~Odd(entered'[q])
               /\ pc'[q] \in {"voted", "ret"} => entered'[q] > 0
               /\ pc'[q] \notin {"compare", "voted"} => st'[q] = "out"
               /\ pc'[q] \in {"copy", "reinit"} /\ entered'[q] > 0 => verdict'[q] = 1
               /\ pc'[q] = "ret" => verdict'[q] = 0
    BY <1>1, <1>2, <1>5, <1>6, <1>7 DEF FlagInv, PhaseInv
  <2> QED
    BY <1>5, <2>1, <2>2 DEF PhaseInv
\* The bits of the threads that have arrived, p included.
<1>10. /\ \A q \in Arrived \cup {p} : vote'[q] = Differ(q)
       /\ val' = IF \E q \in Arrived \cup {p} : vote'[q] = 1 THEN 1 ELSE 0
  <2>1. \A q \in Arrived : vote[q] = Differ(q) /\ vote'[q] = vote[q]
    BY <1>2, <1>5, <1>7 DEF FoundInv
  <2>2. val = IF \E q \in Arrived : vote'[q] = 1 THEN 1 ELSE 0
    BY <1>2, <1>5, <2>1 DEF FlagInv, ValInv, Disjunction
  <2> QED
    BY <1>1, <1>8, <2>1, <2>2 DEF Or
<1>11. \A q \in Procs : Differ(q)' = Differ(q)
  BY <1>1 DEF Differ, _nxt_id
<1>12. \A q \in Procs : pc'[q] = "vote" => found'[q] = Differ(q)'
  BY <1>1, <1>2, <1>5, <1>11 DEF FoundInv
<1>13. CopyInv'
  BY <1>1, <1>2, <1>5, FlagCopy DEF Copied
<1>14. CASE Last
  <2>1. round' = round + 1 /\ (\A q \in Procs : entered'[q] = round') /\ Arrived \cup {p} = Procs
    BY <1>1, <1>2, <1>5, <1>14, Arriving DEF Arrive, Close, Wait, Arrived
  <2>2. ~Odd(round)'
    BY <1>5, <2>1 DEF Odd
  <2>3. val' = Disjunction(Procs)'
    BY <1>10, <2>1 DEF Disjunction
  <2>4. ValInv'
    BY <2>2, <2>3 DEF ValInv
  <2>5. \A q \in Procs \ {p} : st'[q] # "out"
    <3>1. \A q \in Procs \ {p} : entered[q] = round + 1
      BY <1>1, <1>2, <1>14, Arriving
    <3> QED
      BY <1>2, <1>5, <1>6, <3>1, OutOfFlag
  <2>6. VerdictInv'
    <3>1. verdict'[p] = val'
      BY <1>1, <1>2, <1>14 DEF SGTypeOK
    <3> QED
      BY <2>3, <2>5, <3>1 DEF VerdictInv, Disjunction
  <2>7. FoundInv'
    BY <1>8, <1>10, <1>11, <1>12, <2>1, <2>2 DEF FoundInv
  <2> QED
    BY <1>3, <1>4, <1>9, <1>13, <2>4, <2>6, <2>7 DEF SGInv, FlagInv
<1>15. CASE ~Last
  <2>1. UNCHANGED <<round, verdict>> /\ st'[p] # "out"
    BY <1>1, <1>2, <1>15 DEF Arrive, Close, Wait, Sleep, IInv, TypeOK
  <2>2. Odd(round)'
    BY <1>5, <2>1 DEF Odd
  <2>3. Arrived' = Arrived \cup {p}
    BY <1>1, <1>2, <1>5, <2>1 DEF Arrived
  <2>4. ValInv'
    BY <1>10, <2>2, <2>3 DEF ValInv, Disjunction
  <2>5. VerdictInv'
    <3>1. \A q \in Procs \ {p} : st'[q] = "out" => Odd(entered'[q])
      BY <1>2, <1>5, <1>6, OutOfFlag
    <3>2. \A q \in Procs : Odd(entered'[q]) <=> Odd(entered[q])'
      BY DEF Odd
    <3> QED
      BY <2>1, <3>1, <3>2 DEF VerdictInv
  <2>6. FoundInv'
    BY <1>5, <1>10, <1>11, <1>12, <2>2, <2>3 DEF FoundInv
  <2> QED
    BY <1>3, <1>4, <1>9, <1>13, <2>4, <2>5, <2>6 DEF SGInv, FlagInv
<1> QED
  BY <1>14, <1>15

LEMMA StepWake ==
  ASSUME SGAssumption, SGInv, NEW p \in Procs, InOrFlag(p) \/ Spurious(p)
  PROVE  SGInv'
<1>1. /\ UNCHANGED <<mem, pending, cpy, found, pc, val, vote, round, entered>>
      /\ Wake(p) \/ SpuriousWakeUp(p)
  BY DEF InOrFlag, Spurious, OrWake, OrSpuriousWakeUp, Wake, SpuriousWakeUp, hist, sg
<1>2. SGTypeOK /\ FlagInv /\ FoundInv /\ CopyInv /\ IInv
  BY DEF SGInv, FlagInv
<1>3. /\ st[p] # "out" /\ (\A q \in Procs \ {p} : st'[q] = st[q] /\ verdict'[q] = verdict[q])
      /\ st'[p] # "out" => verdict'[p] = verdict[p]
      /\ st'[p] = "out" => entered[p] = round
           /\ verdict'[p] = IF ~Odd(entered[p]) THEN val ELSE verdict[p]
  <2>1. CASE InOrFlag(p)
    <3>1. CASE turn = t[p]
      BY <1>2, <2>1, <3>1 DEF InOrFlag, OrWake, Wake, Sleep, SGTypeOK, IInv, TypeOK
    <3>2. CASE turn # t[p]
      <4>1. st[p] = "awake" /\ entered[p] = round
        BY <1>2, <2>1, <3>2 DEF InOrFlag, OrWake, Wake, IInv, StageInv
      <4> QED
        BY <1>2, <2>1, <3>2, <4>1 DEF InOrFlag, OrWake, Wake, Leave, SGTypeOK, IInv, TypeOK
    <3> QED
      BY <3>1, <3>2
  <2>2. CASE Spurious(p)
    BY <1>2, <2>2 DEF Spurious, OrSpuriousWakeUp, SpuriousWakeUp, SGTypeOK, IInv, TypeOK
  <2> QED
    BY <2>1, <2>2
<1>4. IInv'
  BY <1>1, <1>2, CodeIInv
<1>5. SGTypeOK'
  <2>1. verdict' \in [Procs -> {0, 1}]
    BY <1>2 DEF InOrFlag, Spurious, OrWake, OrSpuriousWakeUp, SGTypeOK
  <2> QED
    BY <1>1, <1>2, <2>1 DEF SGTypeOK
<1>6. /\ Arrived' = Arrived /\ Odd(round)' = Odd(round)
      /\ \A q \in Procs : Odd(entered[q])' = Odd(entered[q])
  BY <1>1 DEF Arrived, Odd
<1> HIDE DEF Odd
<1>7. ValInv'
  BY <1>1, <1>2, <1>6 DEF FlagInv, ValInv, Disjunction
<1>8. PhaseInv'
  <2>1. pc[p] \in {"compare", "voted"}
    BY <1>2, <1>3 DEF FlagInv, PhaseInv
  <2> QED
    BY <1>1, <1>2, <1>3, <1>6, <2>1 DEF FlagInv, PhaseInv
<1>9. VerdictInv'
  <2>1. ASSUME NEW q \in Procs, st'[q] = "out", entered'[q] > 0, ~Odd(entered[q])'
        PROVE  verdict'[q] = IF \E x \in Procs : vote'[x] = 1 THEN 1 ELSE 0
    <3>1. CASE q = p
      <4>1. ~Odd(round)
        BY <1>3, <1>6, <2>1, <3>1
      <4> QED
        BY <1>1, <1>2, <1>3, <2>1, <3>1, <4>1 DEF FlagInv, ValInv, Disjunction
    <3>2. CASE q # p
      BY <1>1, <1>2, <1>3, <1>6, <2>1, <3>2 DEF FlagInv, VerdictInv
    <3> QED
      BY <3>1, <3>2
  <2> QED
    BY <2>1 DEF VerdictInv
<1>10. FoundInv' /\ CopyInv'
  BY <1>1, <1>2, <1>6 DEF FoundInv, CopyInv, Copied, Differ, _nxt_id
<1> QED
  BY <1>4, <1>5, <1>7, <1>8, <1>9, <1>10 DEF SGInv, FlagInv
-----------------------------------------------------------------------------
LEMMA InitSGInv == SGAssumption /\ SGInit => SGInv
<1> SUFFICES ASSUME SGAssumption, SGInit PROVE SGInv
  OBVIOUS
<1>1. IInv
  BY InitIInv DEF SGInit, OrInit
<1>2. SGTypeOK
  BY DEF SGInit, OrInit, po_create, SGTypeOK, SGAssumption
<1>3. round = 0 /\ ~Odd(round) /\ \A p \in Procs : entered[p] = 0 /\ st[p] = "out"
  BY OddNext DEF SGInit, OrInit, Init
<1>4. PhaseInv /\ VerdictInv
  BY <1>3 DEF SGInit, PhaseInv, VerdictInv
<1>5. ValInv
  BY <1>3 DEF SGInit, OrInit, po_create, ValInv, Disjunction
<1>6. FoundInv
  BY <1>3 DEF SGInit, FoundInv
<1>7. CopyInv
  BY ProcsAssumption DEF SGInit, CopyInv, Copied
<1> QED
  BY <1>1, <1>2, <1>4, <1>5, <1>6, <1>7 DEF SGInv, FlagInv

LEMMA StepSGInv == SGAssumption /\ SGInv /\ [SGNext]_sgVars => SGInv'
<1> SUFFICES ASSUME SGAssumption, SGInv, [SGNext]_sgVars PROVE SGInv'
  OBVIOUS
<1>1. ASSUME NEW p \in Procs,
             FstArrive(p) \/ FstLeave(p) \/ Copy(p) \/ Compare(p) \/ Decide(p) \/ Drain(p)
      PROVE  SGInv'
  BY <1>1, MoveFlag, MoveType, MoveFound, MoveCopy DEF SGInv
<1>2. ASSUME UNCHANGED sgVars PROVE SGInv'
  <2>1. FlagInv'
    BY <1>2 DEF sgVars, orVars, vars, code, hist, sg, SGInv, FlagInv, IInv, TypeOK, CountInv,
                StageInv, Arrived, PhaseInv, ValInv, VerdictInv, Disjunction, Odd
  <2> QED
    BY <1>2, <2>1 DEF sgVars, orVars, vars, hist, sg, SGInv, SGTypeOK, FoundInv, CopyInv, Copied,
                      Differ, _nxt_id, Arrived, Odd
<1> QED
  BY <1>1, <1>2, StepReinit, StepVote, StepWake DEF SGNext, stabilize_globals

\* The or flag, the votes, the copies and what is in memory agree.
THEOREM StabilizeInvariance == SGAssumption => (SGSpec => []SGInv)
<1> SUFFICES ASSUME SGAssumption PROVE SGSpec => []SGInv
  OBVIOUS
<1>1. SGInit => SGInv
  BY InitSGInv
<1>2. SGInv /\ [SGNext]_sgVars => SGInv'
  BY StepSGInv
<1> QED
  BY <1>1, <1>2, PTL DEF SGSpec

\* po_wait returns to every thread the disjunction of the bits of its own round.
THEOREM VerdictsAgree == SGAssumption => (SGSpec => []VerdictInv)
<1> SUFFICES ASSUME SGAssumption PROVE SGSpec => []VerdictInv
  OBVIOUS
<1>1. SGInv => VerdictInv
  BY DEF SGInv, FlagInv
<1>2. SGSpec => []SGInv
  BY StabilizeInvariance
<1> QED
  BY <1>1, <1>2, PTL

\* No thread rewrites its copy while another may be comparing it.
THEOREM CopiesAtRest == SGAssumption => (SGSpec => NoTornCompare)
<1> SUFFICES ASSUME SGAssumption PROVE SGSpec => NoTornCompare
  OBVIOUS
<1>1. SGInv /\ [SGNext]_sgVars =>
        [\A p \in Procs : cpy'[p] # cpy[p] => \A q \in Procs : ~At(q, "compare")]_sgVars
  <2> SUFFICES ASSUME SGInv, SGNext, NEW p \in Procs, cpy'[p] # cpy[p],
                      NEW q \in Procs, At(q, "compare")
               PROVE  FALSE
    OBVIOUS
  <2>1. Copy(p)
    BY DEF SGNext, stabilize_globals, FstArrive, FstLeave, Copy, Reinit, Compare, Vote, Decide,
           InOrFlag, Spurious, Drain, sg, SGInv, SGTypeOK
  <2> QED
    BY <2>1, NobodyCompares DEF Copy, SGInv
<1>2. SGSpec => []SGInv
  BY StabilizeInvariance
<1> QED
  BY <1>1, <1>2, PTL DEF SGSpec, NoTornCompare

\* Induction on the ranks of the threads is by the least counterexample.
LEMMA LeastNat ==
  ASSUME NEW T \in SUBSET Nat, T # {}
  PROVE  \E m \in T : \A k \in T : m <= k
<1> DEFINE R == OpToRel(<, Nat)
<1>1. IsWellFoundedOn(R, Nat)
  BY NatLessThanWellFounded
<1>2. R = {ss \in Nat \X Nat : ss[1] < ss[2]}
  BY DEF R, OpToRel
<1>3. \A k, m \in Nat : <<k, m>> \in R <=> k < m
  BY <1>2
<1> HIDE DEF R
<1> PICK m \in T : \A k \in T : ~(<<k, m>> \in R)
  BY <1>1, WFMin
<1>4. \A k \in T : k \in Nat /\ ~(k < m) /\ m \in Nat
  BY <1>3
<1>5. \A k \in T : m <= k
  BY <1>4
<1> QED
  BY <1>5

\* Copies that are equal two by two, each to the next one, are all equal.
LEMMA AllEqual ==
  ASSUME SGAssumption, \A p \in Procs : cpy[p] = cpy[_nxt_id(p)]
  PROVE  \A p \in Procs : cpy[p] = cpy[0]
<1> DEFINE T == {p \in Procs : cpy[p] # cpy[0]}
<1> SUFFICES ASSUME T # {} PROVE FALSE
  OBVIOUS
<1>1. T \in SUBSET Nat /\ Procs = 0 .. nprocs - 1
  BY NprocsPositive DEF SGAssumption
<1> PICK m \in T : \A k \in T : m <= k
  BY <1>1, LeastNat
<1>2. m \in Nat /\ m # 0 /\ m < nprocs /\ m - 1 \in Procs /\ (m - 1) + 1 = m
  BY <1>1, NprocsPositive
<1>3. m - 1 \notin T
  BY <1>2
<1>4. cpy[m - 1] = cpy[0]
  BY <1>2, <1>3
<1>5. m % nprocs = m
  BY <1>2, NprocsPositive
<1>6. _nxt_id(m - 1) = m
  BY <1>2, <1>5 DEF _nxt_id
<1>7. cpy[m - 1] = cpy[m]
  BY <1>2, <1>6
<1> QED
  BY <1>4, <1>7

\* "global x unstabilized" never happens, whatever the delay of the stores is:
\* at the join every copy is the final value.
THEOREM CopiesAreFinal == SGAssumption => (SGSpec => []StabilizedIsFinal)
<1> SUFFICES ASSUME SGAssumption PROVE SGSpec => []StabilizedIsFinal
  OBVIOUS
<1>1. SGInv => StabilizedIsFinal
  <2> SUFFICES ASSUME SGInv, Joined PROVE \A p \in Procs : cpy[p] = mem
    BY DEF StabilizedIsFinal
  <2>1. SGTypeOK /\ FlagInv /\ FoundInv /\ CopyInv
    BY DEF SGInv
  <2>2. \A p \in Procs : pc[p] = "ret" /\ pending[p] = <<>>
    BY DEF Joined
  <2>3. PICK q \in Procs : cpy[q] = mem
    BY <2>1, <2>2 DEF CopyInv, Copied
  <2>4. st[q] = "out" /\ ~Odd(entered[q]) /\ entered[q] > 0 /\ verdict[q] = 0
    BY <2>1, <2>2 DEF FlagInv, PhaseInv
  <2>5. entered[q] = round
    BY <2>1, <2>4, OutOfFlag
  <2>6. \A x \in Procs : vote[x] = 0
    BY <2>1, <2>4 DEF FlagInv, VerdictInv, SGTypeOK
  <2>7. \A x \in Procs : Differ(x) = 0
    BY <2>1, <2>4, <2>5, <2>6 DEF FoundInv
  <2>8. \A x \in Procs : cpy[x] = cpy[_nxt_id(x)]
    BY <2>7 DEF Differ
  <2> QED
    BY <2>3, <2>8, AllEqual
<1>2. SGSpec => []SGInv
  BY StabilizeInvariance
<1> QED
  BY <1>1, <1>2, PTL
=============================================================================
