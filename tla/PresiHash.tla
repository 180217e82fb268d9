----------------------------- MODULE PresiHash -----------------------------
(***************************************************************************)
(* The hash tables of outcomes of the presi harness: hash_add and          *)
(* hash_adds of litmus/_hash.c, open addressing with linear probing, and   *)
(* the sum of the tables of the instances by litmus/_main.c.               *)
(*                                                                         *)
(* An entry is free when its count is 0.  The hash function is any         *)
(* function of the key.                                                    *)
(***************************************************************************)
EXTENDS Integers, FiniteSetsExt

CONSTANTS
  HASHSZ,
  Keys,        \* log_t
  hash_log,    \* the hash of each key
  OkKeys,      \* the keys that satisfy the condition: _cond
  Params,      \* param_t
  nexe,        \* instances
  MaxAdds      \* bound: outcomes recorded by the instances

Instances == 0 .. nexe - 1
Slots == 0 .. HASHSZ - 1
Sum   == nexe              \* the index of global.hash among the tables
Tabs  == Instances \cup {Sum}

ASSUME HashAssumption ==
  /\ HASHSZ \in Nat \ {0} /\ nexe \in Nat \ {0} /\ MaxAdds \in Nat
  /\ hash_log \in [Keys -> Nat] /\ OkKeys \subseteq Keys
  /\ Keys # {} /\ IsFiniteSet(Keys) /\ Params # {}

VARIABLES
  e,         \* e[k][h]: entry h of table k
  nhash,     \* nhash[k]: its number of entries in use
  cursor,    \* the entry <<k, h>> that the sum has reached
  exited,    \* exit(2) has been called
  adds,      \* history: outcomes recorded by the instances
  added,     \* history: added[k][key], outcomes added to table k
  first      \* history: first[k][key], the parameters of the first of them

hashVars == <<e, nhash, cursor, exited, adds, added, first>>

Free == [key |-> CHOOSE x \in Keys : TRUE, p |-> CHOOSE x \in Params : TRUE,
         c |-> 0, ok |-> FALSE]

\* hash_init, for all the tables.
HashInit ==
  /\ e = [k \in Tabs |-> [h \in Slots |-> Free]]
  /\ nhash = [k \in Tabs |-> 0]
  /\ cursor = <<0, 0>>
  /\ exited = FALSE
  /\ adds = 0
  /\ added = [k \in Tabs |-> [key \in Keys |-> 0]]
  /\ first = [k \in Tabs |-> [key \in Keys |-> Free.p]]
-----------------------------------------------------------------------------
(* Plausible errors.                                                        *)
\* The probe stops at the end of the table instead of wrapping around.
ProbeNoWrap(key, i) ==
  LET h == (hash_log[key] % HASHSZ) + i IN IF h < HASHSZ THEN h ELSE HASHSZ - 1

\* hash_adds adds each entry with a count of 1.
TimesOne(x) == 1

\* The parameters of the last outcome replace those of the first.
AddToLast(x, v, c) == [x EXCEPT !.c = @ + c, !.p = v]
-----------------------------------------------------------------------------
\* The i-th entry that hash_add looks at.
Probe(key, i) == (hash_log[key] + i) % HASHSZ

\* p->c == 0 || eq_log(key,&p->key)
Stops(x, key) == x.c = 0 \/ x.key = key

\* The key is there: the parameters and the condition of its entry are kept.
AddTo(x, v, c) == [x EXCEPT !.c = @ + c]

\* t->nhash++ for a new entry
NewCount(n, new) == IF new THEN n + 1 ELSE n

\* The scan returns at the first entry that will do.
Found(hits) == Min(hits)

\* hash_add(&t[k],key,v,c,ok)
hash_add(k, key, v, c, ok) ==
  LET hits == {i \in Slots : Stops(e[k][Probe(key, i)], key)}
      h    == Probe(key, Found(hits))
      new  == e[k][h].c = 0
  IN
  \/ /\ hits = {}              \* "Hash table is full"
     /\ exited' = TRUE /\ UNCHANGED <<e, nhash, added, first>>
  \/ /\ hits # {}
     /\ e' = [e EXCEPT ![k][h] = IF new THEN [key |-> key, p |-> v, c |-> c, ok |-> ok]
                                 ELSE AddTo(@, v, c)]
     /\ nhash' = [nhash EXCEPT ![k] = NewCount(@, new)]
     /\ added' = [added EXCEPT ![k][key] = @ + c]
     /\ first' = [first EXCEPT ![k][key] = IF added[k][key] = 0 THEN v ELSE @]
     /\ UNCHANGED exited

\* Role 0 of instance k records an outcome, before the threads are joined.
RecordOutcome(k, key, v) ==
  /\ ~exited /\ cursor = <<0, 0>> /\ adds < MaxAdds
  /\ hash_add(k, key, v, 1, key \in OkKeys)
  /\ adds' = adds + 1
  /\ UNCHANGED cursor

Times(x) == x.c

\* hash_adds(&global.hash,&global.ctx[k].t) for k < nexe, entry by entry.
hash_adds ==
  LET k == cursor[1]
      h == cursor[2]
      x == e[k][h]
  IN  /\ ~exited /\ k < nexe
      /\ cursor' = IF h + 1 < HASHSZ THEN <<k, h + 1>> ELSE <<k + 1, 0>>
      /\ IF x.c > 0 THEN hash_add(Sum, x.key, x.p, Times(x), x.ok)
         ELSE UNCHANGED <<e, nhash, added, first, exited>>
      /\ UNCHANGED adds

Over == exited \/ cursor[1] = nexe
HashFinished == Over /\ UNCHANGED hashVars

HashNext ==
  \/ \E k \in Instances, key \in Keys, v \in Params : RecordOutcome(k, key, v)
  \/ hash_adds
  \/ HashFinished

HashSpec == HashInit /\ [][HashNext]_hashVars
-----------------------------------------------------------------------------
Used(k) == {h \in Slots : e[k][h].c > 0}

\* The search for a key never stops at a free entry before the one that holds it.
Reachable(k) ==
  \A h \in Used(k) :
    \E i \in Slots : /\ h = Probe(e[k][h].key, i)
                     /\ \A j \in 0 .. i - 1 : Probe(e[k][h].key, j) \in Used(k)

\* A table is the bag of the outcomes added to it: one entry for each, with
\* its count, its verdict, and the parameters of its first occurrence, where
\* the search for it, past the collisions, finds it.
TableIsBag ==
  \A k \in Tabs :
    /\ Reachable(k)
    /\ \A h \in Used(k) :
         LET x == e[k][h] IN
           /\ x.c = added[k][x.key] /\ x.p = first[k][x.key] /\ x.ok = (x.key \in OkKeys)
           /\ \A g \in Used(k) : e[k][g].key = x.key => g = h
    /\ \A key \in Keys : added[k][key] > 0 => \E h \in Used(k) : e[k][h].key = key
    /\ nhash[k] = Cardinality(Used(k))

\* "Hash table is full" is printed only when some table holds HASHSZ different
\* outcomes and receives another one.
FullWhenFull ==
  exited => \E k \in Tabs : Used(k) = Slots /\ Cardinality(Keys) > HASHSZ

\* What _main.c counts in the sum, p_true and p_false, are the outcomes that
\* the instances have recorded.
SumTabs(f, S) == MapThenSumSet(LAMBDA x : f[x], S)
SumIsTotal ==
  Over /\ ~exited =>
    \A key \in Keys : added[Sum][key] = SumTabs([k \in Instances |-> added[k][key]], Instances)
=============================================================================
