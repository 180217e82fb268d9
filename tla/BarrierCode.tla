----------------------------- MODULE BarrierCode -----------------------------
(***************************************************************************)
(* The user level barrier as it is written: the instructions of            *)
(* barrier_wait in litmus/_<arch>/barrier.c, for each architecture, on a   *)
(* memory with store buffers and early loads.  A store that leaves its     *)
(* buffer is seen by all at once, which ppc and arm do not promise.        *)
(* SenseBarrier takes each access as one sequentially consistent step;     *)
(* here that is a theorem to check (Spec, the specification of             *)
(* SenseBarrier, is a property), and what makes it true is the place of    *)
(* the fences.                                                             *)
(*                                                                         *)
(* Registers: ms is "sense" (the operand ms), r is r1 (or eax).  ip is the *)
(* index of the next instruction, 0 out of the barrier.  The words p->c    *)
(* and p->sense in memory are the variables c and sense of SenseBarrier;   *)
(* its pc, entered, left and round are history variables here, updated     *)
(* when the access they stand for takes effect.                            *)
(*                                                                         *)
(* The memory (external: it is the processors').  A store waits in the     *)
(* buffer of its thread; the buffer is a queue on x86, and elsewhere       *)
(* keeps the order of the stores to one word only.  A load may be          *)
(* performed early: view[p] is what the earliest load that p may still     *)
(* return from would have seen.  On x86 loads are in order, so that each   *)
(* load refreshes the whole view; elsewhere only a full fence does.  A     *)
(* full fence waits for the buffer to be empty.                            *)
(***************************************************************************)
EXTENDS SenseBarrier, Sequences

CONSTANT Archs      \* the versions of barrier_wait under check

ASSUME ArchsAssumption ==
  Archs \subseteq {"x86", "ppc", "ppc_lab", "arm", "aarch64", "mips"}

VARIABLES
  arch,      \* the architecture of this program
  ip,        \* the next instruction of each thread
  r,         \* register r1 (eax) of each thread
  my,        \* *mySense of each thread (ppc_lab)
  resv,      \* the threads that hold a reservation of p->c (ll, lwarx, ldrex)
  buf,       \* the stores of each thread that are not yet in memory
  data,      \* one word of each thread, which stores k before its k-th call
  view,      \* s: the oldest p->sense a load of the thread may return;
             \* d: it finds in data all that was stored for its last call
  calls      \* history: calls of each thread

machine == <<arch, ip, r, my, resv, buf, data, view, calls>>
allvars == <<vars, machine>>

-----------------------------------------------------------------------------
(***************************************************************************)
(* The programs.  A label is the index of an instruction; "b" past the end *)
(* returns.                                                                *)
(***************************************************************************)
x86 ==
  << <<"ldms">>, <<"xadd">>, <<"bz", 6>>,
     <<"spin", 4>>, <<"b", 9>>,
     <<"stc">>, <<"sts">>, <<"fence">> >>

ppc ==
  << <<"ldms">>, <<"fence">>, <<"ll">>, <<"dec">>, <<"sc", 3, 0>>, <<"bnz", 12>>,
     <<"fence">>, <<"stc">>, <<"fence">>, <<"sts">>, <<"b", 14>>,
     <<"fence">>, <<"spin", 12>>,
     <<"fence">> >>

\* The sense of the thread is kept in *mySense from one call to the next.
ppc_lab ==
  << <<"fence">>, <<"ldmy">>, <<"fence">>, <<"ll">>, <<"dec">>, <<"sc", 4, 0>>, <<"bnz", 13>>,
     <<"fence">>, <<"stc">>, <<"fence">>, <<"sts">>, <<"b", 15>>,
     <<"fence">>, <<"spin", 13>>,
     <<"fence">>, <<"stmy">>, <<"fence">> >>

arm ==
  << <<"ldms">>, <<"fence">>, <<"ll">>, <<"dec">>, <<"sc", 3, 0>>, <<"bnz", 13>>,
     <<"fence">>, <<"stc">>, <<"fence">>, <<"sts">>, <<"fence">>, <<"b", 14>>,
     <<"spin", 13>>,
     <<"fence">> >>

\* The spinning threads leave by "dmb st".
aarch64 ==
  << <<"ldms">>, <<"fence">>, <<"ll">>, <<"dec">>, <<"sc", 3, 0>>, <<"blez", 11>>,
     <<"fence">>, <<"spin", 8>>, <<"stfence">>, <<"b", 16>>,
     <<"fence">>, <<"stc">>, <<"fence">>, <<"sts">>, <<"fence">> >>

\* The value stored is computed in r2; r1 is decremented afterwards.
mips ==
  << <<"ldms">>, <<"fence">>, <<"ll">>, <<"sc", 3, 1>>, <<"dec">>, <<"fence">>, <<"bnz", 12>>,
     <<"stc">>, <<"fence">>, <<"sts">>, <<"b", 13>>,
     <<"spin", 12>>,
     <<"fence">> >>

Programs ==
  [x86 |-> x86, ppc |-> ppc, ppc_lab |-> ppc_lab, arm |-> arm,
   aarch64 |-> aarch64, mips |-> mips]

(***************************************************************************)
(* Plausible errors: an instruction changed, or skipped by a branch to the *)
(* next one.  Each is a replacement for Program.                           *)
(***************************************************************************)
\* The sense may be flipped before the count is reset.
NoFenceBeforeFlip == [Programs EXCEPT !.aarch64[13] = <<"b", 14>>][arch]

\* r1 holds the count before the decrement when it is tested.
NotDecremented == [Programs EXCEPT !.mips[5] = <<"b", 6>>][arch]

\* The result of the store conditional is not tested.
NoRetry == [Programs EXCEPT !.ppc[5] = <<"sc", 6, 0>>][arch]

\* The loads that follow the barrier may be performed in the spin loop.
NoExitFence == [Programs EXCEPT !.arm[14] = <<"b", 15>>][arch]

\* *mySense keeps its value from one call to the next.
SameMySense == [Programs EXCEPT !.ppc_lab[16] = <<"b", 17>>][arch]
-----------------------------------------------------------------------------
\* The instructions that this architecture's compiler is given.
Program == Programs[arch]

Op(p)  == Program[ip[p]][1]
Arg(p) == Program[ip[p]][2]

\* Is thread p about to execute an instruction of this kind?
Is(p, op) == ip[p] # 0 /\ Op(p) = op

\* Control goes to instruction i, or back to the caller.
Jump(p, i) == ip' = [ip EXCEPT ![p] = IF i > Len(Program) THEN 0 ELSE i]
Step(p) == Jump(p, ip[p] + 1)

-----------------------------------------------------------------------------
(***************************************************************************)
(* Memory.                                                                 *)
(***************************************************************************)
TSO == arch = "x86"

Store(p, loc, val) == buf' = [buf EXCEPT ![p] = Append(@, [loc |-> loc, val |-> val])]

\* The stores of p that may reach memory next.
Drainable(p) ==
  {i \in 1 .. Len(buf[p]) :
     \A j \in 1 .. i - 1 : ~TSO /\ buf[p][j].loc # buf[p][i].loc}

\* The values that a load of p->sense by p may return.
Loadable(p) ==
  LET own == {i \in 1 .. Len(buf[p]) : buf[p][i].loc = "s"}
  IN  IF own # {} THEN {buf[p][CHOOSE i \in own : \A j \in own : j <= i].val}
      ELSE IF TSO THEN {sense} ELSE {view[p].s, sense}

\* The view of p when all its loads so far have been performed, and when it
\* has loaded value v of p->sense.
Fresh(p) == [s |-> sense, d |-> \A q \in Procs : data[q] >= calls[p]]
Loaded(p, v) == IF TSO THEN Fresh(p) ELSE [view[p] EXCEPT !.s = v]

CodeInit ==
  /\ Init
  /\ arch \in Archs
  /\ ip   = [p \in Procs |-> 0]
  /\ r    = [p \in Procs |-> 0]
  /\ my   = [p \in Procs |-> 0]
  /\ resv = {}
  /\ buf  = [p \in Procs |-> <<>>]
  /\ data = [p \in Procs |-> 0]
  /\ view = [p \in Procs |-> [s |-> 0, d |-> TRUE]]
  /\ calls = [p \in Procs |-> 0]

-----------------------------------------------------------------------------
(***************************************************************************)
(* The instructions.                                                       *)
(***************************************************************************)
\* The caller: each thread stores its word, then calls barrier_wait.
CallWait(p) ==
  /\ ip[p] = 0 /\ calls[p] < Rounds
  /\ calls' = [calls EXCEPT ![p] = @ + 1]
  /\ Store(p, "d", calls[p] + 1)
  /\ view' = [view EXCEPT ![p].d = FALSE]
  /\ Jump(p, 1)
  /\ UNCHANGED <<vars, arch, r, my, resv, data>>

\* int sense = p->sense
LoadMS(p) ==
  /\ Is(p, "ldms")
  /\ \E v \in Loadable(p) : /\ ms' = [ms EXCEPT ![p] = v]
                            /\ view' = [view EXCEPT ![p] = Loaded(p, v)]
  /\ pc' = [pc EXCEPT ![p] = "dec"]
  /\ Step(p)
  /\ UNCHANGED <<c, sense, entered, left, round, arch, r, my, resv, buf, data, calls>>

\* lwz r2,0(ms)
LoadMySense(p) ==
  /\ Is(p, "ldmy")
  /\ ms' = [ms EXCEPT ![p] = my[p]]
  /\ pc' = [pc EXCEPT ![p] = "dec"]
  /\ Step(p)
  /\ UNCHANGED <<c, sense, entered, left, round, arch, r, my, resv, buf, data, view, calls>>

\* not r1,r2; stw r1,0(ms)
StoreMySense(p) ==
  /\ Is(p, "stmy")
  /\ my' = [my EXCEPT ![p] = 1 - ms[p]]
  /\ Step(p)
  /\ UNCHANGED <<vars, arch, r, resv, buf, data, view, calls>>

\* mfence, sync, dmb, dsb
Fence(p) ==
  /\ Is(p, "fence") /\ buf[p] = <<>>
  /\ view' = [view EXCEPT ![p] = Fresh(p)]
  /\ Step(p)
  /\ UNCHANGED <<vars, arch, r, my, resv, buf, data, calls>>

\* dmb st: the stores are ordered, the loads are not.
StoreFence(p) ==
  /\ Is(p, "stfence") /\ buf[p] = <<>>
  /\ Step(p)
  /\ UNCHANGED <<vars, arch, r, my, resv, buf, data, view, calls>>

\* lwarx, ldrex, ldxr, ll.  A stale value would make the store fail.
LoadLinked(p) ==
  /\ Is(p, "ll")
  /\ r' = [r EXCEPT ![p] = c]
  /\ resv' = resv \cup {p}
  /\ Step(p)
  /\ UNCHANGED <<vars, arch, my, buf, data, view, calls>>

DecrementR(p) ==
  /\ Is(p, "dec")
  /\ r' = [r EXCEPT ![p] = @ - 1]
  /\ Step(p)
  /\ UNCHANGED <<vars, arch, my, resv, buf, data, view, calls>>

\* p->c takes a new value by an atomic decrement of p.
Decremented(p, val) ==
  /\ c' = val
  /\ pc' = [pc EXCEPT ![p] = IF val = 0 THEN "reset" ELSE "spin"]
  /\ entered' = [entered EXCEPT ![p] = @ + 1]
  /\ resv' = {}
  /\ UNCHANGED <<sense, ms, left, round, arch, my, buf, data, calls>>

\* lock xaddl: a fence too.
ExchangeAdd(p) ==
  /\ Is(p, "xadd") /\ buf[p] = <<>>
  /\ Decremented(p, c - 1)
  /\ r' = [r EXCEPT ![p] = c - 1]
  /\ view' = [view EXCEPT ![p] = Fresh(p)]
  /\ Step(p)

\* stwcx., strex, stxr, sc: performed only if nobody has written p->c since
\* the load.
StoreConditional(p) ==
  /\ Is(p, "sc") /\ p \in resv
  /\ Decremented(p, r[p] - Program[ip[p]][3])
  /\ Step(p)
  /\ UNCHANGED <<r, view>>

\* It fails when the reservation is lost, and may fail for no reason.
FailConditional(p) ==
  /\ Is(p, "sc")
  /\ resv' = resv \ {p}
  /\ Jump(p, Arg(p))
  /\ UNCHANGED <<vars, arch, r, my, buf, data, view, calls>>

\* The branches: je, ble; bne; b.
Branch(p) ==
  /\ \/ Is(p, "bz") /\ Jump(p, IF r[p] = 0 THEN Arg(p) ELSE ip[p] + 1)
     \/ Is(p, "blez") /\ Jump(p, IF r[p] <= 0 THEN Arg(p) ELSE ip[p] + 1)
     \/ Is(p, "bnz") /\ Jump(p, IF r[p] # 0 THEN Arg(p) ELSE ip[p] + 1)
     \/ Is(p, "b") /\ Jump(p, Arg(p))
  /\ UNCHANGED <<vars, arch, r, my, resv, buf, data, view, calls>>

\* Load p->sense, compare with ms, and loop when equal.
Spin(p) ==
  /\ Is(p, "spin")
  /\ \E v \in Loadable(p) :
       /\ view' = [view EXCEPT ![p] = Loaded(p, v)]
       /\ \/ v = ms[p] /\ Jump(p, Arg(p)) /\ UNCHANGED <<pc, left>>
          \/ v # ms[p] /\ Step(p) /\ pc' = [pc EXCEPT ![p] = "out"]
                       /\ left' = [left EXCEPT ![p] = @ + 1]
  /\ UNCHANGED <<c, sense, ms, entered, round, arch, r, my, resv, buf, data, calls>>

\* p->c = p->n, p->sense = !sense: into the buffer.  (On ppc and arm it is
\* ~sense, -1 for the 1 of here.)
StoreCount(p) ==
  /\ Is(p, "stc") /\ Store(p, "c", n) /\ Step(p)
  /\ UNCHANGED <<vars, arch, r, my, resv, data, view, calls>>

StoreSense(p) ==
  /\ Is(p, "sts") /\ Store(p, "s", 1 - ms[p]) /\ Step(p)
  /\ UNCHANGED <<vars, arch, r, my, resv, data, view, calls>>

Exec(p) ==
  \/ CallWait(p)
  \/ LoadMS(p) \/ LoadMySense(p) \/ StoreMySense(p)
  \/ Fence(p) \/ StoreFence(p)
  \/ LoadLinked(p) \/ DecrementR(p) \/ ExchangeAdd(p)
  \/ StoreConditional(p) \/ FailConditional(p)
  \/ Branch(p) \/ Spin(p)
  \/ StoreCount(p) \/ StoreSense(p)

\* A store of p reaches memory.
Drain(p) ==
  \E i \in Drainable(p) :
    LET b == buf[p][i] IN
    /\ buf' = [buf EXCEPT ![p] = SubSeq(@, 1, i - 1) \o SubSeq(@, i + 1, Len(@))]
    /\ \/ /\ b.loc = "c"
          /\ c' = b.val /\ resv' = {}
          /\ pc' = [pc EXCEPT ![p] = "flip"]
          /\ UNCHANGED <<sense, left, round, data>>
       \/ /\ b.loc = "s"
          /\ sense' = b.val /\ round' = round + 1
          /\ pc' = [pc EXCEPT ![p] = "out"]
          /\ left' = [left EXCEPT ![p] = @ + 1]
          /\ UNCHANGED <<c, resv, data>>
       \/ /\ b.loc = "d"
          /\ data' = [data EXCEPT ![p] = b.val]
          /\ UNCHANGED <<c, sense, pc, left, round, resv>>
    /\ UNCHANGED <<ms, entered, arch, ip, r, my, view, calls>>

AllReturned == \A p \in Procs : ip[p] = 0 /\ left[p] = Rounds

CodeFinished == AllReturned /\ UNCHANGED allvars

CodeNext == (\E p \in Procs : Exec(p) \/ Drain(p)) \/ CodeFinished

\* Each thread runs, the buffers empty, and an ll/sc loop that is retried for
\* ever succeeds, as the architectures promise.
CodeFairness ==
  \A p \in Procs :
    WF_allvars(Exec(p)) /\ WF_allvars(Drain(p)) /\ SF_allvars(StoreConditional(p))

CodeSafety == CodeInit /\ [][CodeNext]_allvars
CodeSpec == CodeSafety /\ CodeFairness
-----------------------------------------------------------------------------
(***************************************************************************)
(* The inductive invariant.  Each instruction is annotated with what holds *)
(* of a thread that is about to execute it:                                *)
(*   called       it has not read the sense                                *)
(*   read         it has; its word may still be in its buffer              *)
(*   try          its word is in memory                                    *)
(*   linked, less r1 is p->c (p->c - 1) if it still has the reservation    *)
(*   drawn, taken it has decremented p->c, to r1 - 1 (to r1)               *)
(*   spinning     it was not the last one                                  *)
(*   last         it was                                                   *)
(*   reset, flip  p->c = p->n has been issued (and is in memory)           *)
(*   leaving      its part is done, p->sense = !sense issued or seen       *)
(*   back         p->sense is the other one, and it has seen it            *)
(*   turned       the same, and *mySense is the new sense                  *)
(***************************************************************************)
Notes ==
  [x86     |-> <<"called", "read", "taken", "spinning", "back", "last", "reset",
                 "leaving">>,
   ppc     |-> <<"called", "read", "try", "linked", "less", "taken", "last", "last",
                 "reset", "flip", "leaving", "spinning", "spinning", "leaving">>,
   ppc_lab |-> <<"called", "called", "read", "try", "linked", "less", "taken", "last",
                 "last", "reset", "flip", "leaving", "spinning", "spinning",
                 "leaving", "back", "turned">>,
   arm     |-> <<"called", "read", "try", "linked", "less", "taken", "last", "last",
                 "reset", "flip", "leaving", "leaving", "spinning", "leaving">>,
   aarch64 |-> <<"called", "read", "try", "linked", "less", "taken", "spinning",
                 "spinning", "back", "back", "last", "last", "reset", "flip",
                 "leaving">>,
   mips    |-> <<"called", "read", "try", "linked", "drawn", "taken", "taken", "last",
                 "reset", "flip", "leaving", "spinning", "leaving">>]

Note(p) == IF ip[p] = 0 THEN "out" ELSE Notes[arch][ip[p]]

\* The place of each thread in barrier_wait, as SenseBarrier sees it.
PlaceInv(p) ==
  /\ Note(p) \in {"out", "called", "back", "turned"} => pc[p] = "out"
  /\ Note(p) \in {"read", "try", "linked", "less"} => pc[p] = "dec"
  /\ Note(p) \in {"drawn", "taken"} => pc[p] \in {"reset", "spin"}
  /\ Note(p) = "spinning" => pc[p] = "spin"
  /\ Note(p) = "last" => pc[p] = "reset"
  /\ Note(p) = "reset" => pc[p] \in {"reset", "flip"}
  /\ Note(p) = "flip" => pc[p] = "flip"
  /\ Note(p) = "leaving" => pc[p] \in {"reset", "flip", "out"}
  /\ calls[p] = IF pc[p] = "dec" \/ Note(p) = "called" THEN entered[p] + 1 ELSE entered[p]
  /\ calls[p] <= Rounds

\* What r1 says of p->c.
RegisterInv(p) ==
  /\ Note(p) = "linked" /\ p \in resv => r[p] = c
  /\ Note(p) = "less" /\ p \in resv => r[p] = c - 1
  /\ Note(p) = "drawn" => r[p] >= 1 /\ (r[p] = 1 <=> pc[p] = "reset")
  /\ Note(p) = "taken" => r[p] >= 0 /\ (r[p] = 0 <=> pc[p] = "reset")

\* The stores of barrier_wait, and where each may wait.
WordStore(p)  == [loc |-> "d", val |-> calls[p]]
CountStore    == [loc |-> "c", val |-> n]
SenseStore(p) == [loc |-> "s", val |-> 1 - ms[p]]

BufferInv(p) ==
  \/ /\ buf[p] = <<>> /\ data[p] = calls[p]
     /\ Note(p) = "reset" => pc[p] = "flip"
     /\ Note(p) = "leaving" => pc[p] = "out"
  \/ /\ Note(p) \in {"called", "read"}
     /\ buf[p] = <<WordStore(p)>> /\ data[p] = calls[p] - 1
  \/ /\ Note(p) = "reset" /\ pc[p] = "reset"
     /\ buf[p] = <<CountStore>> /\ data[p] = calls[p]
  \/ /\ Note(p) = "leaving" /\ pc[p] = "reset" /\ TSO
     /\ buf[p] = <<CountStore, SenseStore(p)>> /\ data[p] = calls[p]
  \/ /\ Note(p) = "leaving" /\ pc[p] = "flip"
     /\ buf[p] = <<SenseStore(p)>> /\ data[p] = calls[p]

\* What the loads of p->sense, and *mySense, may return.
ViewInv(p) ==
  /\ Note(p) \in {"out", "called", "back", "turned"} => view[p].s = sense
  /\ pc[p] \in {"dec", "spin"} => view[p].s \in {ms[p], sense}
  /\ Note(p) \in {"leaving", "back", "turned"} /\ pc[p] = "out" => sense = 1 - ms[p]
  /\ arch = "ppc_lab" =>
       my[p] = IF Note(p) \in {"out", "called", "turned"} THEN sense ELSE ms[p]
  /\ arch # "aarch64" /\ Note(p) \in {"out", "back", "turned"} => view[p].d

MachineTypeOK ==
  /\ arch \in Archs
  /\ ip \in [Procs -> Nat] /\ \A p \in Procs : ip[p] <= Len(Program)
  /\ r \in [Procs -> Int]
  /\ my \in [Procs -> {0, 1}]
  /\ resv \subseteq Procs
  /\ buf \in [Procs -> Seq([loc : {"d", "c", "s"}, val : Nat])]
  /\ data \in [Procs -> Nat]
  /\ view \in [Procs -> [s : {0, 1}, d : BOOLEAN]]
  /\ calls \in [Procs -> Nat]

ThreadInv(p) == PlaceInv(p) /\ RegisterInv(p) /\ BufferInv(p) /\ ViewInv(p)

CodeInv == IInv /\ MachineTypeOK /\ \A p \in Procs : ThreadInv(p)

-----------------------------------------------------------------------------
\* A thread that is back from its k-th call of barrier_wait sees, by every
\* load it performs next, what the others stored before their k-th call.
Sees == \A p \in Procs : ip[p] = 0 => view[p].d

\* So it is on every architecture whose spinning threads leave by a full fence
\* (or by a load that is in order, on x86).
SeesStores == arch # "aarch64" => Sees
=============================================================================
