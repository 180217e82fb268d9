-------------------------------- MODULE Affi --------------------------------
(***************************************************************************)
(* Grouping of the threads of a test by affinity: litmus/affi.ml.  Thread  *)
(* p is linked to thread p+1 of the cycle by the communication coms[p+1],  *)
(* as the line "Com=" of the test lists them.  compute returns classes of  *)
(* close threads, one or two each, and the pairs of far threads.  The      *)
(* classes are "color" and the pairs "diff" in the code of the test.       *)
(*                                                                         *)
(* The generator calls compute and writes its result, color and diff, in   *)
(* the program; module Placement is what the program makes of it.          *)
(***************************************************************************)
EXTENDS Integers, SequencesExt

com == {"Rf", "Fr", "Ws", "Hat"}

VARIABLE coms    \* the communications of the cycle of the test

N == Len(coms)

edge(p) == coms[p + 1]

next(p) == (p + 1) % N

is_not_rf(c) == c # "Rf"

\* find_fr, else find_ws, else the first node.
Start ==
  LET first(c) == SelectInSeq(coms, LAMBDA e : e = c) - 1 IN
  IF first("Fr") >= 0 THEN first("Fr")
  ELSE IF first("Ws") >= 0 THEN first("Ws") ELSE 0
-----------------------------------------------------------------------------
(* Plausible errors.                                                        *)
\* The walk starts with the node found, and not with the next one.
NodesFromStart == [i \in 1 .. N |-> (Start + i - 1) % N]

\* The specific case of two threads is forgotten.
SplitNever(xs) == xs
-----------------------------------------------------------------------------
\* Split a chain in pairs, and a last single thread if its length is odd.
to2(xs, k) ==
  [i \in 1 .. (Len(xs) + 1) \div 2 |->
     SubSeq(xs, 2 * i - 1, IF 2 * i <= Len(xs) THEN 2 * i ELSE Len(xs))] \o k

\* The elements of xs that are in S, in their order.
Only(xs, S) == FoldLeft(LAMBDA ys, x : IF x \in S THEN Append(ys, x) ELSE ys, <<>>, xs)

\* The nodes in the order of the walk of collect, from m.next to m.
Nodes == [i \in 1 .. N |-> (Start + i) % N]

\* One step of the walk back: acc is the pending chain and the classes done.
WithNode(n, acc) ==
  IF edge(n) = "Rf" THEN << <<n>> \o acc[1], acc[2]>>
  ELSE << <<n>>, to2(acc[1], acc[2])>>

collect ==
  LET acc == FoldRight(WithNode, Nodes, << <<>>, <<>> >>)
  IN  to2(acc[1], acc[2])

collect_fr == {<<p, next(p)>> : p \in {p \in 0 .. N - 1 : edge(p) = "Fr"}}

\* Specific case Rf+ Fr/Ws.
Split(xs) ==
  IF Len(xs) = 1 /\ Len(xs[1]) = 2 /\ (\E p \in 0 .. N - 1 : is_not_rf(edge(p)))
  THEN << <<xs[1][1]>>, <<xs[1][2]>> >> ELSE xs

\* The classes, the largest first (List.sort is stable).
ofSize(xs, n) == Only(xs, {x \in ToSet(xs) : Len(x) = n})

compute == LET xs == Split(collect) IN ofSize(xs, 2) \o ofSize(xs, 1)
-----------------------------------------------------------------------------
Pairs == {c \in ToSet(compute) : Len(c) = 2}

\* Each thread is in one class, once.
Partition ==
  \A p \in 0 .. N - 1 :
    Cardinality({x \in (DOMAIN compute) \X {1, 2} :
                   x[2] <= Len(compute[x[1]]) /\ compute[x[1]][x[2]] = p}) = 1

\* The classes are a partition of the threads, each of which is placed once, and
\* threads that must be far are never put together.  custom_affinity does not
\* test it: it compares a thread with those of other classes only.
Compatible ==
  /\ Partition
  /\ \A c \in Pairs : <<c[1], c[2]>> \notin collect_fr /\ <<c[2], c[1]>> \notin collect_fr

\* Threads are close because of an Rf; and when the cycle has an Fr or a Ws to
\* cut it at, no Rf links two threads that are both left alone (but for the
\* cycle of two threads, which is split).
RfPaired ==
  /\ \A c \in Pairs : edge(c[1]) = "Rf" /\ c[2] = next(c[1])
  /\ N > 2 /\ {"Fr", "Ws"} \cap ToSet(coms) # {} =>
       \A p \in 0 .. N - 1 :
         edge(p) = "Rf" => ~({<<p>>, <<next(p)>>} \subseteq ToSet(compute))
=============================================================================
