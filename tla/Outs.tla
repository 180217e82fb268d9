-------------------------------- MODULE Outs --------------------------------
(***************************************************************************)
(* The histograms of outcomes: the lexicographic trees of litmus/_outs.c   *)
(* and the hist_t around them (hist_defs, litmus/defString.ml).            *)
(*                                                                         *)
(* An outcome is an array k of sz values, kept in a tree of depth sz whose *)
(* levels are lists of cells in increasing order of k; the level of the    *)
(* root holds k[sz-1], the leaves k[0] and the counts.  A list is here the *)
(* sequence of its cells, so that ->next is the tail; cells are never      *)
(* shared between trees, every one is allocated for its tree.              *)
(***************************************************************************)
EXTENDS Integers, Sequences, FiniteSetsExt

CONSTANTS Vals,      \* the values an observed location may have
          sz,        \* number of observed locations, NOUTS
          Pos,       \* the outcomes that satisfy the final condition
          Hists,     \* the histograms of the instances (one per zyva)
          MaxOuts    \* bound: outcomes recorded, over all histograms

Outcomes == [0 .. sz - 1 -> Vals]

ASSUME OutsAssumption ==
  /\ Vals \subseteq Nat /\ sz \in Nat \ {0} /\ MaxOuts \in Nat
  /\ Pos \subseteq Outcomes

VARIABLES
  outs,      \* outs[h]: h->outcomes
  n_pos,     \* n_pos[h]: h->n_pos
  n_neg,     \* n_neg[h]: h->n_neg
  bag        \* history: bag[h][o], how many times h has received o

outsVars == <<outs, n_pos, n_neg, bag>>

final_ok(o) == o \in Pos
-----------------------------------------------------------------------------
(* Plausible errors.                                                        *)
\* A missing cell is noticed at the end of the list only.
NeedsCellAtEnd(p, v) == p = <<>>

\* Lists are compared up to the end of the shorter one.
SameEndsPrefix(p, q) == TRUE
-----------------------------------------------------------------------------
alloc_outs(k) == [k |-> k, c |-> 0, show |-> FALSE, down |-> <<>>]

\* p == NULL || k < p->k
NeedsCell(p, v) == p = <<>> \/ v < Head(p).k

WithCell(p, v) == IF NeedsCell(p, v) THEN <<alloc_outs(v)>> \o p ELSE p

\* loop_add_outcome_outs: along the list, then down, then the count.
RECURSIVE add_outcome_outs(_, _, _, _, _)
add_outcome_outs(p, k, i, c, show) ==
  LET q == WithCell(p, k[i])
      a == Head(q)
  IN  IF k[i] > a.k THEN <<a>> \o add_outcome_outs(Tail(q), k, i, c, show)
      ELSE IF i <= 0 THEN <<[a EXCEPT !.c = @ + c, !.show = show \/ @]>> \o Tail(q)
      ELSE <<[a EXCEPT !.down = add_outcome_outs(@, k, i - 1, c, show)]>> \o Tail(q)

MergeCell(a, b) == [a EXCEPT !.c = @ + b.c, !.show = @ \/ b.show]

\* do_merge_outs: merge q into p.
RECURSIVE do_merge_outs(_, _)
do_merge_outs(p, q) ==
  IF q = <<>> THEN p
  ELSE LET r == WithCell(p, Head(q).k)
           a == Head(r)
           b == Head(q)
       IN  IF a.k = b.k
           THEN <<[MergeCell(a, b) EXCEPT !.down = do_merge_outs(@, b.down)]>>
                  \o do_merge_outs(Tail(r), Tail(q))
           ELSE <<a>> \o do_merge_outs(Tail(r), q)

RECURSIVE sum_outs(_)
sum_outs(p) ==
  IF p = <<>> THEN 0
  ELSE Head(p).c + sum_outs(Head(p).down) + sum_outs(Tail(p))

\* p == q, when one of them is NULL
SameEnds(p, q) == p = q

RECURSIVE same_outs(_, _)
same_outs(p, q) ==
  IF p = <<>> \/ q = <<>> THEN SameEnds(p, q)
  ELSE /\ Head(p).k = Head(q).k
       /\ Head(p).c = Head(q).c
       /\ Head(p).show = Head(q).show
       /\ same_outs(Head(p).down, Head(q).down)
       /\ same_outs(Tail(p), Tail(q))

\* dump_outs: the outcomes in the order in which they are printed; buff
\* holds the values of the levels above.
RECURSIVE dump_outs(_, _, _)
dump_outs(p, buff, i) ==
  IF p = <<>> THEN <<>>
  ELSE LET a == Head(p)
           o == [buff EXCEPT ![i - 1] = a.k]
       IN  (IF a.c > 0 THEN <<[out |-> o, c |-> a.c, show |-> a.show]>>
            ELSE dump_outs(a.down, o, i - 1)) \o dump_outs(Tail(p), buff, i)

Buff == [i \in 0 .. sz - 1 |-> 0]
Dump(h) == dump_outs(outs[h], Buff, sz)
-----------------------------------------------------------------------------
OutsInit ==
  /\ outs  = [h \in Hists |-> <<>>]
  /\ n_pos = [h \in Hists |-> 0]
  /\ n_neg = [h \in Hists |-> 0]
  /\ bag   = [h \in Hists |-> [o \in Outcomes |-> 0]]

sum_hist(h) == sum_outs(outs[h])

SumOver(f, S) == MapThenSumSet(LAMBDA x : f[x], S)

\* add_outcome(hist,1,o,cond), then hist->n_pos++ or hist->n_neg++.
AddOutcome(h, o) ==
  LET cond == final_ok(o) IN
    /\ SumOver(n_pos, Hists) + SumOver(n_neg, Hists) < MaxOuts
    /\ outs' = [outs EXCEPT ![h] = add_outcome_outs(@, o, sz - 1, 1, cond)]
    /\ n_pos' = [n_pos EXCEPT ![h] = @ + IF cond THEN 1 ELSE 0]
    /\ n_neg' = [n_neg EXCEPT ![h] = @ + IF cond THEN 0 ELSE 1]
    /\ bag' = [bag EXCEPT ![h][o] = @ + 1]

\* merge_hists(h0,h1), then free_hist(h1) (an empty histogram takes its place).
MergeHists(h0, h1) ==
  /\ h0 # h1
  /\ outs' = [outs EXCEPT ![h0] = do_merge_outs(@, outs[h1]), ![h1] = <<>>]
  /\ n_pos' = [n_pos EXCEPT ![h0] = @ + n_pos[h1], ![h1] = 0]
  /\ n_neg' = [n_neg EXCEPT ![h0] = @ + n_neg[h1], ![h1] = 0]
  /\ bag' = [bag EXCEPT ![h0] = [o \in Outcomes |-> @[o] + bag[h1][o]],
                        ![h1] = [o \in Outcomes |-> 0]]

OutsNext ==
  \E h \in Hists :
    \/ \E o \in Outcomes : AddOutcome(h, o)
    \/ \E g \in Hists : MergeHists(h, g)
-----------------------------------------------------------------------------
\* A level is a list of cells in strictly increasing order; only the leaves
\* count, and no branch is empty.
RECURSIVE WellFormed(_, _)
WellFormed(p, i) ==
  /\ \A j \in 1 .. Len(p) - 1 : p[j].k < p[j + 1].k
  /\ \A j \in 1 .. Len(p) :
       IF i = 1 THEN p[j].c > 0 /\ p[j].down = <<>>
       ELSE p[j].c = 0 /\ ~p[j].show /\ p[j].down # <<>> /\ WellFormed(p[j].down, i - 1)

\* o comes before u: the last location is the most significant.
Before(o, u) ==
  \E i \in 0 .. sz - 1 : o[i] < u[i] /\ \A j \in i + 1 .. sz - 1 : o[j] = u[j]

\* The two ways of counting that run() compares agree, and n_pos is the
\* number of the outcomes that are marked.
CountsAgree(h) ==
  /\ sum_hist(h) = n_pos[h] + n_neg[h]
  /\ n_pos[h] = SumOver(bag[h], Pos)

\* After any sequence of additions and merges the tree is well formed, the sums
\* that run() compares agree, and what is printed of a histogram is the bag of
\* the outcomes it received: each once, with its count and its mark, in
\* lexicographic order.
DumpsTheBag ==
  \A h \in Hists :
    LET d == Dump(h) IN
      /\ WellFormed(outs[h], sz) /\ CountsAgree(h)
      /\ {d[i].out : i \in 1 .. Len(d)} = {o \in Outcomes : bag[h][o] > 0}
      /\ \A i \in 1 .. Len(d) : d[i].c = bag[h][d[i].out] /\ d[i].show = final_ok(d[i].out)
      /\ \A i \in 1 .. Len(d) - 1 : Before(d[i].out, d[i + 1].out)

\* same_hist tells equal histograms from different ones, in whatever order
\* they were filled: zyva uses it to compare those of the test threads.
SameHist ==
  \A g, h \in Hists : same_outs(outs[g], outs[h]) <=> bag[g] = bag[h]
=============================================================================
