----------------------------- MODULE PresiProofs -----------------------------
(***************************************************************************)
(* The presi harness: the tables where its instances count the outcomes    *)
(* (PresiHash), and its crews, iterations and barriers (PresiHarness).     *)
(***************************************************************************)
EXTENDS PresiHash, PresiHarness, FiniteSetTheorems, SequenceTheorems, TLAPS

-----------------------------------------------------------------------------
(***************************************************************************)
(* The hash tables of the presi harness hold what was added to them, for   *)
(* every size of the tables, hash function, set of outcomes and number of  *)
(* instances, and the sum made at the end is the sum of what the instances *)
(* have recorded.                                                          *)
(***************************************************************************)

(***************************************************************************)
(* Sums.  SumTabs is a recursive function on sets, from the community      *)
(* modules: it exists, and the order of its choices does not matter.       *)
(***************************************************************************)
Pick(s_) == CHOOSE x \in s_ : TRUE
IsFold(g, f, S) ==
  g = [s_ \in SUBSET S |-> IF s_ = {} THEN 0 ELSE f[Pick(s_)] + g[s_ \ {Pick(s_)}]]

LEMMA SumIsFold ==
  ASSUME NEW f, NEW S
  PROVE  SumTabs(f, S) = (CHOOSE g : IsFold(g, f, S))[S]
  BY DEF SumTabs, MapThenSumSet, MapThenFoldSet, IsFold, Pick

\* Every non-empty set of naturals has a least element.
LEMMA LeastNat ==
  ASSUME NEW T \in SUBSET Nat, T # {}
  PROVE  \E m \in T : \A k \in T : m <= k
<1> DEFINE R == OpToRel(<, Nat)
<1>1. IsWellFoundedOn(R, Nat)
  BY NatLessThanWellFounded
<1>2. R = {ss \in Nat \X Nat : ss[1] < ss[2]}
  BY DEF R, OpToRel
<1>3. \A k, m \in Nat : <<k, m>> \in R <=> k < m
  BY <1>2
<1> HIDE DEF R
<1> PICK m \in T : \A k \in T : ~(<<k, m>> \in R)
  BY <1>1, WFMin
<1>4. \A k \in T : k \in Nat /\ ~(k < m) /\ m \in Nat
  BY <1>3
<1>5. \A k \in T : m <= k
  BY <1>4
<1> QED
  BY <1>5

LEMMA Picked ==
  ASSUME NEW S, IsFiniteSet(S), S # {}
  PROVE  /\ Pick(S) \in S /\ S \ {Pick(S)} \in SUBSET S /\ IsFiniteSet(S \ {Pick(S)})
         /\ Cardinality(S) \in Nat /\ Cardinality(S) > 0
         /\ Cardinality(S \ {Pick(S)}) = Cardinality(S) - 1
<1>1. Pick(S) \in S
  BY DEF Pick
<1>2. Cardinality(S) \in Nat /\ Cardinality(S) # 0
  BY FS_CardinalityType, FS_EmptySet
<1>3. IsFiniteSet(S \ {Pick(S)}) /\ Cardinality(S \ {Pick(S)}) = Cardinality(S) - 1
  BY <1>1, FS_RemoveElement
<1> QED
  BY <1>1, <1>2, <1>3

\* By the size of the parts of S.
LEMMA FoldExists ==
  ASSUME NEW f, NEW S, IsFiniteSet(S)
  PROVE  \E g : IsFold(g, f, S)
<1> DEFINE D(m) == {s_ \in SUBSET S : Cardinality(s_) <= m}
           IsLevel(g, m) ==
             g = [s_ \in D(m) |-> IF s_ = {} THEN 0 ELSE f[Pick(s_)] + g[s_ \ {Pick(s_)}]]
           Bad == {m \in Nat : ~\E g : IsLevel(g, m)}
<1>0. \A s_ \in SUBSET S : IsFiniteSet(s_) /\ Cardinality(s_) \in Nat
  BY FS_Subset, FS_CardinalityType
<1>1. \E g : IsLevel(g, 0)
  <2> DEFINE g == [s_ \in D(0) |-> 0]
             h == [s_ \in D(0) |-> IF s_ = {} THEN 0 ELSE f[Pick(s_)] + g[s_ \ {Pick(s_)}]]
  <2>1. \A s_ \in D(0) : s_ = {}
    BY <1>0, FS_EmptySet
  <2>2. g = h
    BY <2>1
  <2> QED
    BY <2>2
<1>2. ASSUME NEW m \in Nat, NEW g, IsLevel(g, m) PROVE \E h : IsLevel(h, m + 1)
  <2> DEFINE h == [s_ \in D(m + 1) |-> IF s_ = {} THEN 0 ELSE f[Pick(s_)] + g[s_ \ {Pick(s_)}]]
             k == [s_ \in D(m + 1) |-> IF s_ = {} THEN 0 ELSE f[Pick(s_)] + h[s_ \ {Pick(s_)}]]
  <2>1. \A s_ \in D(m) : s_ \in D(m + 1) /\ g[s_] = h[s_]
    <3>1. \A s_ \in D(m) : s_ \in D(m + 1)
      BY <1>0
    <3>2. \A s_ \in D(m) : g[s_] = IF s_ = {} THEN 0 ELSE f[Pick(s_)] + g[s_ \ {Pick(s_)}]
      BY <1>2
    <3> QED
      BY <3>1, <3>2
  <2>2. \A s_ \in D(m + 1) : s_ # {} => s_ \ {Pick(s_)} \in D(m)
    <3> SUFFICES ASSUME NEW s_ \in D(m + 1), s_ # {} PROVE s_ \ {Pick(s_)} \in D(m)
      OBVIOUS
    <3>1. s_ \in SUBSET S /\ Cardinality(s_) <= m + 1 /\ IsFiniteSet(s_)
      BY <1>0
    <3>2. s_ \ {Pick(s_)} \in SUBSET s_ /\ Cardinality(s_ \ {Pick(s_)}) = Cardinality(s_) - 1
          /\ Cardinality(s_) \in Nat
      BY <3>1, Picked
    <3> QED
      BY <3>1, <3>2
  <2>3. \A s_ \in D(m + 1) : s_ # {} => g[s_ \ {Pick(s_)}] = h[s_ \ {Pick(s_)}]
    BY <2>1, <2>2
  <2> HIDE DEF D
  <2>4. h = k
    <3> HIDE DEF IsLevel
    <3> QED
      BY <2>3
  <2> QED
    BY <2>4
<1>3. Bad = {}
  <2> SUFFICES ASSUME Bad # {} PROVE FALSE
    OBVIOUS
  <2> HIDE DEF IsLevel
  <2>1. PICK m \in Bad : \A l \in Bad : m <= l
    <3>1. Bad \in SUBSET Nat
      OBVIOUS
    <3> QED
      BY <3>1, LeastNat
  <2>2. m \in Nat /\ m # 0
    BY <1>1, <2>1
  <2>3. m - 1 \in Nat /\ m - 1 \notin Bad /\ (m - 1) + 1 = m
    BY <2>1, <2>2
  <2>4. PICK g : IsLevel(g, m - 1)
    BY <2>3
  <2> QED
    BY <1>2, <2>1, <2>3, <2>4
<1> DEFINE n == Cardinality(S)
<1>4. n \in Nat /\ D(n) = SUBSET S
  <2>1. \A s_ \in SUBSET S : Cardinality(s_) <= n
    BY FS_Subset
  <2> QED
    BY <1>0, <2>1
<1>5. PICK g : IsLevel(g, n)
  BY <1>3, <1>4
<1>6. g = [s_ \in D(n) |-> IF s_ = {} THEN 0 ELSE f[Pick(s_)] + g[s_ \ {Pick(s_)}]]
  BY <1>5
<1> HIDE DEF D, n
<1>7. IsFold(g, f, S)
  BY <1>4, <1>6 DEF IsFold
<1> QED
  BY <1>7

\* The fold over a set, read at a part of it, is the fold over that part.
LEMMA FoldOfPart ==
  ASSUME NEW f, NEW S, IsFiniteSet(S), NEW T \in SUBSET S, NEW g, IsFold(g, f, S)
  PROVE  g[T] = SumTabs(f, T)
<1> DEFINE h == CHOOSE h : IsFold(h, f, T)
           Bad == {s_ \in SUBSET T : h[s_] # g[s_]}
           Sizes == {Cardinality(s_) : s_ \in Bad}
<1>0. \A s_ \in SUBSET S : IsFiniteSet(s_) /\ Cardinality(s_) \in Nat
  BY FS_Subset, FS_CardinalityType
<1>1. IsFold(h, f, T)
  BY <1>0, FoldExists
<1>2. SumTabs(f, T) = h[T]
  BY SumIsFold
<1> HIDE DEF h
<1>3. /\ \A s_ \in SUBSET T : h[s_] = IF s_ = {} THEN 0 ELSE f[Pick(s_)] + h[s_ \ {Pick(s_)}]
      /\ \A s_ \in SUBSET T : g[s_] = IF s_ = {} THEN 0 ELSE f[Pick(s_)] + g[s_ \ {Pick(s_)}]
  <2>1. \A s_ \in SUBSET T : h[s_] = IF s_ = {} THEN 0 ELSE f[Pick(s_)] + h[s_ \ {Pick(s_)}]
    BY <1>1 DEF IsFold
  <2>2. \A s_ \in SUBSET S : g[s_] = IF s_ = {} THEN 0 ELSE f[Pick(s_)] + g[s_ \ {Pick(s_)}]
    BY DEF IsFold
  <2> QED
    BY <2>1, <2>2
<1>4. Bad = {}
  <2> SUFFICES ASSUME Bad # {} PROVE FALSE
    OBVIOUS
  <2>1. Sizes \in SUBSET Nat /\ Sizes # {}
    BY <1>0
  <2>2. PICK m \in Sizes : \A l \in Sizes : m <= l
    BY <2>1, LeastNat
  <2>3. PICK s_ \in Bad : Cardinality(s_) = m
    BY <2>2
  <2>4. s_ \in SUBSET T /\ s_ # {} /\ h[s_] # g[s_] /\ IsFiniteSet(s_)
    BY <1>0, <1>3, <2>3
  <2>5. /\ s_ \ {Pick(s_)} \in SUBSET T /\ m \in Nat
        /\ Cardinality(s_ \ {Pick(s_)}) = m - 1
    BY <2>3, <2>4, Picked
  <2>6. s_ \ {Pick(s_)} \notin Bad
    <3> SUFFICES ASSUME s_ \ {Pick(s_)} \in Bad PROVE FALSE
      OBVIOUS
    <3>1. m <= m - 1
      BY <2>2, <2>5
    <3> QED
      BY <2>5, <3>1
  <2>7. h[s_ \ {Pick(s_)}] = g[s_ \ {Pick(s_)}]
    BY <2>5, <2>6
  <2> QED
    BY <1>3, <2>4, <2>7
<1>5. h[T] = g[T]
  BY <1>4
<1> QED
  BY <1>2, <1>5

LEMMA SumEmpty == ASSUME NEW f PROVE SumTabs(f, {}) = 0
<1> PICK g : IsFold(g, f, {})
  BY FoldExists, FS_EmptySet
<1>1. g[{}] = 0
  BY DEF IsFold
<1> QED
  BY <1>1, FoldOfPart, FS_EmptySet

\* The first element taken is the one the module chooses.
LEMMA SumPick ==
  ASSUME NEW f, NEW S, IsFiniteSet(S), S # {}
  PROVE  SumTabs(f, S) = f[Pick(S)] + SumTabs(f, S \ {Pick(S)})
<1> PICK g : IsFold(g, f, S)
  BY FoldExists
<1>1. g[S] = f[Pick(S)] + g[S \ {Pick(S)}]
  BY DEF IsFold
<1>2. S \in SUBSET S /\ S \ {Pick(S)} \in SUBSET S
  OBVIOUS
<1>3. g[S] = SumTabs(f, S)
  BY <1>2, FoldOfPart
<1>4. g[S \ {Pick(S)}] = SumTabs(f, S \ {Pick(S)})
  BY <1>2, FoldOfPart
<1> QED
  BY <1>1, <1>3, <1>4

\* Any element may be taken first.
LEMMA SumStep ==
  ASSUME NEW S, IsFiniteSet(S), NEW f \in [S -> Nat], NEW R \in SUBSET S, NEW x \in R
  PROVE  /\ SumTabs(f, R) \in Nat /\ SumTabs(f, R \ {x}) \in Nat
         /\ SumTabs(f, R) = f[x] + SumTabs(f, R \ {x})
<1> DEFINE Good(T) == /\ SumTabs(f, T) \in Nat
                      /\ \A y \in T : SumTabs(f, T) = f[y] + SumTabs(f, T \ {y})
           Bad == {T \in SUBSET S : ~Good(T)}
           Sizes == {Cardinality(T) : T \in Bad}
<1>0. \A T \in SUBSET S : IsFiniteSet(T) /\ Cardinality(T) \in Nat
  BY FS_Subset, FS_CardinalityType
<1>1. Bad = {}
  <2> SUFFICES ASSUME Bad # {} PROVE FALSE
    OBVIOUS
  <2>1. Sizes \in SUBSET Nat /\ Sizes # {}
    <3> HIDE DEF Good
    <3> QED
      BY <1>0
  <2>2. PICK m \in Sizes : \A l \in Sizes : m <= l
    BY <2>1, LeastNat
  <2> HIDE DEF Good
  <2>3. PICK T \in Bad : Cardinality(T) = m
    BY <2>2
  <2>4. T \in SUBSET S /\ IsFiniteSet(T) /\ m \in Nat /\ ~Good(T)
    BY <1>0, <2>3
  <2>5. ASSUME NEW y \in T PROVE Good(T \ {y})
    <3>1. T \ {y} \in SUBSET S /\ Cardinality(T \ {y}) = m - 1
      BY <2>3, <2>4, FS_RemoveElement
    <3>2. ~(m - 1 \in Sizes)
      BY <2>2, <2>4
    <3> QED
      BY <3>1, <3>2
  <2>6. T # {}
    <3> SUFFICES ASSUME T = {} PROVE Good(T)
      BY <2>4
    <3> QED
      BY SumEmpty DEF Good
  <2> DEFINE p == Pick(T)
  <2>7. /\ p \in T /\ f[p] \in Nat /\ SumTabs(f, T) = f[p] + SumTabs(f, T \ {p})
        /\ Good(T \ {p})
    BY <2>4, <2>5, <2>6, Picked, SumPick
  <2> HIDE DEF p
  <2>8. SumTabs(f, T) \in Nat
    BY <2>7 DEF Good
  <2>9. ASSUME NEW y \in T PROVE SumTabs(f, T) = f[y] + SumTabs(f, T \ {y})
    <3>1. CASE y = p
      BY <2>7, <3>1
    <3>2. CASE y # p
      <4>1. y \in T \ {p} /\ p \in T \ {y} /\ (T \ {p}) \ {y} = (T \ {y}) \ {p}
        BY <2>7, <3>2
      <4>2. SumTabs(f, T \ {p}) = f[y] + SumTabs(f, (T \ {p}) \ {y})
        BY <2>7, <4>1 DEF Good
      <4>3. SumTabs(f, T \ {y}) = f[p] + SumTabs(f, (T \ {y}) \ {p}) /\ SumTabs(f, T \ {y}) \in Nat
        BY <2>5, <4>1 DEF Good
      <4>4. f[y] \in Nat /\ f[p] \in Nat
        BY <2>4, <2>7
      <4> DEFINE a == SumTabs(f, T \ {p})
                 b == SumTabs(f, T \ {y})
                 z == SumTabs(f, (T \ {y}) \ {p})
      <4>5. z \in Nat
        <5>1. Good(T \ {y})
          BY <2>5
        <5>2. (T \ {p}) \in SUBSET S /\ (T \ {y}) \ {p} \in SUBSET S
          BY <2>4
        <5>3. Good((T \ {y}) \ {p})
          <6> DEFINE U == T \ {y}
          <6>1. Cardinality(U) = m - 1 /\ IsFiniteSet(U) /\ p \in U
            BY <2>3, <2>4, <4>1, FS_RemoveElement
          <6> HIDE DEF U
          <6>2. Cardinality(U \ {p}) = Cardinality(U) - 1
            BY <6>1, FS_RemoveElement
          <6>3. Cardinality((T \ {y}) \ {p}) = m - 2
            BY <2>4, <6>1, <6>2 DEF U
          <6>4. ~(m - 2 \in Sizes)
            BY <2>2, <2>4
          <6> QED
            BY <5>2, <6>3, <6>4
        <5> QED
          BY <5>3 DEF Good
      <4>6. SumTabs(f, T) = f[p] + a /\ a = f[y] + z /\ b = f[p] + z
        BY <2>7, <4>1, <4>2, <4>3
      <4> HIDE DEF a, b, z
      <4>7. SumTabs(f, T) = f[y] + b
        BY <4>4, <4>5, <4>6
      <4> QED
        BY <4>7 DEF b
    <3> QED
      BY <3>1, <3>2
  <2> QED
    BY <2>4, <2>8, <2>9 DEF Good
<1>2. Good(R) /\ Good(R \ {x})
  <2> HIDE DEF Good
  <2> QED
    BY <1>1
<1> QED
  BY <1>2
-----------------------------------------------------------------------------
\* Division by a positive number: quotient and remainder are unique.
LEMMA Division ==
  ASSUME NEW d \in Nat, d > 0, NEW x \in Int
  PROVE  /\ x \div d \in Int /\ x % d \in 0 .. d - 1
         /\ x = d * (x \div d) + (x % d)
         /\ \A q \in Int, r \in 0 .. d - 1 : x = d * q + r => q = x \div d /\ r = x % d
<1>1. x \div d \in Int /\ x % d \in 0 .. d - 1 /\ x = d * (x \div d) + (x % d)
  OBVIOUS
<1>2. ASSUME NEW q \in Int, NEW r \in 0 .. d - 1, NEW p \in Int, NEW s_ \in 0 .. d - 1,
             d * q + r = d * p + s_
      PROVE  q = p /\ r = s_
  BY <1>2
<1> QED
  BY <1>1, <1>2

\* The probe of a key goes through the whole table.
LEMMA Probes ==
  ASSUME NEW key \in Keys
  PROVE  /\ \A i \in Slots : Probe(key, i) \in Slots
         /\ \A h \in Slots : \E i \in Slots : Probe(key, i) = h
<1>0. HASHSZ \in Nat /\ HASHSZ > 0 /\ hash_log[key] \in Nat
  BY HashAssumption
<1> DEFINE m == hash_log[key]
<1>1. ASSUME NEW i \in Slots PROVE Probe(key, i) \in Slots
  <2>1. m + i \in Int
    BY <1>0 DEF Slots
  <2> QED
    BY <1>0, <2>1, Division DEF Probe, Slots
<1>2. ASSUME NEW h \in Slots PROVE \E i \in Slots : Probe(key, i) = h
  <2> DEFINE x == h - m
             q == x \div HASHSZ
             i == x % HASHSZ
  <2>1. x \in Int
    BY <1>0 DEF Slots
  <2>2. q \in Int /\ i \in 0 .. HASHSZ - 1 /\ x = HASHSZ * q + i
    <3> HIDE DEF x
    <3> QED
      BY <1>0, <2>1, Division
  <2> HIDE DEF q, i
  <2>3. m + i = HASHSZ * (0 - q) + h
    <3>1. HASHSZ * (0 - q) = 0 - HASHSZ * q
      BY <1>0, <2>2
    <3>2. m + i = h - HASHSZ * q
      BY <1>0, <2>1, <2>2 DEF Slots
    <3>3. h \in Int /\ HASHSZ * q \in Int
      BY <1>0, <2>2 DEF Slots
    <3> QED
      BY <3>1, <3>2, <3>3
  <2> DEFINE y == m + i
             z == 0 - q
  <2>4. y \in Int /\ z \in Int /\ h \in 0 .. HASHSZ - 1 /\ y = HASHSZ * z + h
    BY <1>0, <2>2, <2>3 DEF Slots
  <2> HIDE DEF y, z
  <2>5. h = y % HASHSZ
    BY <1>0, <2>4, Division
  <2> QED
    BY <2>2, <2>5 DEF y, Probe, Slots
<1> QED
  BY <1>1, <1>2
-----------------------------------------------------------------------------
Entries == [key : Keys, p : Params, c : Nat, ok : BOOLEAN]

TablesTypeOK ==
  /\ e \in [Tabs -> [Slots -> Entries]]
  /\ nhash \in [Tabs -> Nat]
  /\ added \in [Tabs -> [Keys -> Nat]]
  /\ first \in [Tabs -> [Keys -> Params]]
  /\ exited \in BOOLEAN

CursorTypeOK ==
  /\ adds \in Nat /\ cursor \in Nat \X Nat
  /\ \/ cursor[1] \in Instances /\ cursor[2] \in Slots
     \/ cursor[1] = nexe /\ cursor[2] = 0

\* TableIsBag, of one table.
IsBag(k) ==
  /\ Reachable(k)
  /\ \A h \in Used(k) :
       /\ e[k][h].c = added[k][e[k][h].key]
       /\ e[k][h].p = first[k][e[k][h].key]
       /\ e[k][h].ok = (e[k][h].key \in OkKeys)
       /\ \A g \in Used(k) : e[k][g].key = e[k][h].key => g = h
  /\ \A key \in Keys : added[k][key] > 0 => \E h \in Used(k) : e[k][h].key = key
  /\ nhash[k] = Cardinality(Used(k))

\* A full table has no room for another key.
IsFull(k) == Used(k) = Slots /\ \E key \in Keys : \A h \in Slots : e[k][h].key # key

\* What of the table under the cursor has been added to the sum.
Merged(key) ==
  IF \E g \in Slots : g < cursor[2] /\ e[cursor[1]][g].c > 0 /\ e[cursor[1]][g].key = key
  THEN added[cursor[1]][key] ELSE 0

\* What has been added to the sum is what of the instances is behind the cursor.
SumInv ==
  ~exited => \A key \in Keys :
    added[Sum][key] =
      SumTabs([k \in Instances |-> added[k][key]], 0 .. cursor[1] - 1) + Merged(key)

\* The inductive invariant.
HashInv ==
  /\ TablesTypeOK /\ CursorTypeOK
  /\ \A k \in Tabs : IsBag(k)
  /\ exited => \E k \in Tabs : IsFull(k)
  /\ SumInv

LEMMA Slotted == IsFiniteSet(Slots) /\ Cardinality(Slots) = HASHSZ /\ HASHSZ \in Nat /\ HASHSZ > 0
<1>1. HASHSZ \in Nat /\ HASHSZ > 0
  BY HashAssumption
<1> QED
  BY <1>1, FS_Interval DEF Slots

LEMMA FiniteInsts == IsFiniteSet(Instances)
<1>1. nexe \in Nat
  BY HashAssumption
<1> QED
  BY <1>1, FS_Interval DEF Instances

\* A key that the search does not find was never added.
LEMMA NotThere ==
  ASSUME TablesTypeOK, NEW k \in Tabs, IsBag(k), NEW key \in Keys, NEW f \in Slots,
         e[k][Probe(key, f)].c = 0,
         \A j \in Slots : j < f => e[k][Probe(key, j)].c # 0 /\ e[k][Probe(key, j)].key # key
  PROVE  added[k][key] = 0 /\ \A g \in Used(k) : e[k][g].key # key
<1>1. ASSUME NEW g \in Used(k), e[k][g].key = key PROVE FALSE
  <2>1. PICK i \in Slots : /\ g = Probe(key, i)
                           /\ \A j \in 0 .. i - 1 : Probe(key, j) \in Used(k)
    BY <1>1 DEF IsBag, Reachable
  <2>2. f \in Nat /\ i \in Nat
    BY Slotted DEF Slots
  <2>3. ~(f < i)
    <3> SUFFICES ASSUME f < i PROVE FALSE
      OBVIOUS
    <3>1. f \in 0 .. i - 1
      BY <2>2
    <3> QED
      BY <2>1, <3>1 DEF Used
  <2>4. f # i
    BY <1>1, <2>1 DEF Used
  <2> QED
    BY <1>1, <2>1, <2>2, <2>3, <2>4
<1>2. added[k][key] \in Nat /\ ~(added[k][key] > 0)
  BY <1>1 DEF TablesTypeOK, IsBag
<1> QED
  BY <1>1, <1>2

\* hash_add keeps a table a bag, and finds no room only in a full table.
LEMMA StepAdd ==
  ASSUME TablesTypeOK, ~exited, NEW k \in Tabs, NEW key \in Keys, NEW v \in Params,
         NEW c \in Nat, c > 0, NEW ok, ok = (key \in OkKeys),
         \A t \in Tabs : IsBag(t), hash_add(k, key, v, c, ok)
  PROVE  /\ TablesTypeOK' /\ \A t \in Tabs : IsBag(t)'
         /\ exited' => IsFull(k)'
         /\ ~exited' => /\ \A t \in Tabs, x \in Keys :
                             added'[t][x] = IF t = k /\ x = key THEN added[t][x] + c
                                            ELSE added[t][x]
                        /\ \A t \in Tabs : t # k => e'[t] = e[t]
<1> DEFINE hits == {i \in Slots : Stops(e[k][Probe(key, i)], key)}
<1>0. /\ \A i \in Slots : Probe(key, i) \in Slots
      /\ \A h \in Slots : \E i \in Slots : Probe(key, i) = h
  BY Probes
<1>1. CASE hits = {}
  <2>1. /\ exited' = TRUE /\ e' = e /\ nhash' = nhash /\ added' = added /\ first' = first
    BY <1>1 DEF hash_add
  <2>2. TablesTypeOK'
    BY <2>1 DEF TablesTypeOK
  <2>3. ASSUME NEW t \in Tabs PROVE IsBag(t)'
    <3>1. IsBag(t) /\ Used(t)' = Used(t)
      BY <2>1 DEF Used
    <3>2. Reachable(t)'
      BY <2>1, <3>1 DEF IsBag, Reachable, Probe
    <3> QED
      BY <2>1, <3>1, <3>2 DEF IsBag
  <2>4. \A h \in Slots : e[k][h].c # 0 /\ e[k][h].key # key
    BY <1>0, <1>1 DEF Stops
  <2>5. \A h \in Slots : e[k][h].c > 0
    BY <2>4 DEF TablesTypeOK, Entries
  <2>6. IsFull(k)'
    BY <2>1, <2>4, <2>5 DEF IsFull, Used
  <2> QED
    BY <2>1, <2>2, <2>3, <2>6
<1>2. CASE hits # {}
  <2> DEFINE f == Found(hits)
             h == Probe(key, f)
             new == e[k][h].c = 0
  <2>1. /\ f \in Slots /\ Stops(e[k][h], key)
        /\ \A j \in Slots : j < f => ~Stops(e[k][Probe(key, j)], key)
    <3>1. hits \in SUBSET Nat
      BY Slotted DEF Slots
    <3>2. \E m \in hits : \A i \in hits : m <= i
      BY <1>2, <3>1, LeastNat
    <3>3. f \in hits /\ \A i \in hits : f <= i
      BY <3>2 DEF Found, Min
    <3>4. \A i \in Slots : i \in Nat
      BY Slotted DEF Slots
    <3> HIDE DEF f
    <3>5. ASSUME NEW j \in Slots, j < f PROVE ~Stops(e[k][Probe(key, j)], key)
      BY <3>3, <3>4, <3>5
    <3> QED
      BY <3>3, <3>5
  <2>2. /\ exited' = exited
        /\ e' = [e EXCEPT ![k][h] = IF new THEN [key |-> key, p |-> v, c |-> c, ok |-> ok]
                                    ELSE AddTo(e[k][h], v, c)]
        /\ nhash' = [nhash EXCEPT ![k] = NewCount(nhash[k], new)]
        /\ added' = [added EXCEPT ![k][key] = added[k][key] + c]
        /\ first' = [first EXCEPT ![k][key] = IF added[k][key] = 0 THEN v ELSE first[k][key]]
    BY <1>2 DEF hash_add
  <2>3. h \in Slots
    BY <1>0, <2>1
  <2> HIDE DEF hits, f, h, new
  <2> DEFINE y == e'[k][h]
  <2>4. /\ e'[k] = [e[k] EXCEPT ![h] = y]
        /\ y = IF new THEN [key |-> key, p |-> v, c |-> c, ok |-> ok]
               ELSE [e[k][h] EXCEPT !.c = e[k][h].c + c]
        /\ \A g \in Slots : g # h => e'[k][g] = e[k][g]
        /\ \A t \in Tabs : t # k => e'[t] = e[t]
    BY <2>2, <2>3 DEF TablesTypeOK, AddTo
  <2>5. e[k][h] \in Entries /\ (new <=> e[k][h].c = 0) /\ (~new => e[k][h].key = key)
    BY <2>1, <2>3 DEF TablesTypeOK, Stops, new
  <2>6. /\ y \in Entries /\ y.key = key /\ y.c > 0
        /\ new => y.p = v /\ y.c = c /\ y.ok = ok
        /\ ~new => y.p = e[k][h].p /\ y.c = e[k][h].c + c /\ y.ok = e[k][h].ok
    BY <2>4, <2>5 DEF Entries
  <2> HIDE DEF y
  <2>7. /\ \A t \in Tabs, x \in Keys :
             added'[t][x] = IF t = k /\ x = key THEN added[t][x] + c ELSE added[t][x]
        /\ \A t \in Tabs, x \in Keys :
             first'[t][x] = IF t = k /\ x = key /\ added[k][key] = 0 THEN v ELSE first[t][x]
        /\ \A t \in Tabs : nhash'[t] = IF t = k /\ new THEN nhash[t] + 1 ELSE nhash[t]
    BY <2>2 DEF TablesTypeOK, NewCount
  <2>8. TablesTypeOK'
    <3>1. e' \in [Tabs -> [Slots -> Entries]]
      <4>1. e'[k] \in [Slots -> Entries]
        BY <2>3, <2>4, <2>6 DEF TablesTypeOK
      <4>2. e' = [e EXCEPT ![k] = e'[k]]
        BY <2>2 DEF TablesTypeOK
      <4> QED
        BY <4>1, <4>2 DEF TablesTypeOK
    <3>2. nhash' \in [Tabs -> Nat]
      BY <2>2 DEF TablesTypeOK, NewCount
    <3>3. added' \in [Tabs -> [Keys -> Nat]] /\ first' \in [Tabs -> [Keys -> Params]]
      BY <2>2 DEF TablesTypeOK
    <3> QED
      BY <2>2, <3>1, <3>2, <3>3 DEF TablesTypeOK
  <2>9. ASSUME NEW t \in Tabs, t # k PROVE IsBag(t)'
    <3>1. e'[t] = e[t] /\ nhash'[t] = nhash[t] /\ added'[t] = added[t] /\ first'[t] = first[t]
      BY <2>2, <2>4, <2>9 DEF TablesTypeOK
    <3>2. Used(t)' = Used(t)
      BY <3>1 DEF Used
    <3>3. IsBag(t)
      OBVIOUS
    <3>4. Reachable(t)'
      BY <3>1, <3>2, <3>3 DEF IsBag, Reachable
    <3> QED
      BY <3>1, <3>2, <3>3, <3>4 DEF IsBag
  <2>10. Used(k)' = Used(k) \cup {h} /\ (new <=> h \notin Used(k))
    <3>1. e[k][h].c \in Nat
      BY <2>5 DEF Entries
    <3>2. e'[k][h].c > 0
      BY <2>6 DEF y
    <3>3. \A g \in Slots : e'[k][g].c > 0 <=> e[k][g].c > 0 \/ g = h
      BY <2>4, <3>2
    <3>4. /\ Used(k) = {g \in Slots : e[k][g].c > 0}
          /\ Used(k)' = {g \in Slots : e'[k][g].c > 0}
      BY DEF Used
    <3> QED
      BY <2>3, <2>5, <3>1, <3>3, <3>4
  <2>11. new => added[k][key] = 0 /\ \A g \in Used(k) : e[k][g].key # key
    <3> SUFFICES ASSUME new PROVE added[k][key] = 0 /\ \A g \in Used(k) : e[k][g].key # key
      OBVIOUS
    <3>1. e[k][Probe(key, f)].c = 0
      BY <2>5 DEF h
    <3>2. \A j \in Slots : j < f => e[k][Probe(key, j)].c # 0 /\ e[k][Probe(key, j)].key # key
      BY <2>1 DEF Stops
    <3> QED
      BY <2>1, <3>1, <3>2, NotThere
  <2>12. IsBag(k)
    OBVIOUS
  <2>13. ~new => added[k][key] > 0 /\ e[k][h].c = added[k][key] /\ e[k][h].p = first[k][key]
                 /\ e[k][h].ok = (key \in OkKeys)
                 /\ \A g \in Used(k) : e[k][g].key = key => g = h
    <3> SUFFICES ASSUME ~new PROVE added[k][key] > 0 /\ e[k][h].c = added[k][key]
                                   /\ e[k][h].p = first[k][key] /\ e[k][h].ok = (key \in OkKeys)
                                   /\ \A g \in Used(k) : e[k][g].key = key => g = h
      OBVIOUS
    <3>1. h \in Used(k) /\ e[k][h].key = key
      BY <2>5, <2>10
    <3> QED
      BY <2>12, <3>1 DEF IsBag, Used
  <2>14. Reachable(k)'
    <3> SUFFICES ASSUME NEW g \in Used(k)'
                 PROVE  \E i \in Slots : /\ g = Probe(e'[k][g].key, i)
                                         /\ \A j \in 0 .. i - 1 :
                                              Probe(e'[k][g].key, j) \in Used(k)'
      BY DEF Reachable, Probe
    <3>1. CASE g \in Used(k)
      <4>1. g \in Slots /\ e'[k][g].key = e[k][g].key
        BY <2>4, <2>5, <2>6, <2>10, <3>1 DEF Used, y
      <4>2. PICK i \in Slots : /\ g = Probe(e[k][g].key, i)
                               /\ \A j \in 0 .. i - 1 : Probe(e[k][g].key, j) \in Used(k)
        BY <2>12, <3>1 DEF IsBag, Reachable
      <4> QED
        BY <2>10, <4>1, <4>2
    <3>2. CASE g \notin Used(k)
      <4>1. g = h /\ e'[k][g].key = key
        BY <2>6, <2>10, <3>2 DEF y
      <4>2. f \in Slots /\ g = Probe(key, f)
        BY <2>1, <4>1 DEF h
      <4>3. ASSUME NEW j \in 0 .. f - 1 PROVE Probe(key, j) \in Used(k)
        <5>1. j \in Slots /\ j < f
          BY <2>1, Slotted DEF Slots
        <5>2. e[k][Probe(key, j)].c # 0 /\ Probe(key, j) \in Slots
          BY <1>0, <2>1, <5>1 DEF Stops
        <5>3. e[k][Probe(key, j)].c \in Nat
          BY <5>2 DEF TablesTypeOK, Entries
        <5> QED
          BY <5>2, <5>3 DEF Used
      <4> QED
        BY <2>10, <4>1, <4>2, <4>3
    <3> QED
      BY <3>1, <3>2
  \* The entries other than h are as before, and have other keys.
  <2>15. ASSUME NEW g \in Used(k)', g # h
         PROVE  g \in Used(k) /\ e'[k][g] = e[k][g] /\ e[k][g].key \in Keys /\ e[k][g].key # key
    <3>1. g \in Used(k) /\ g \in Slots
      BY <2>10, <2>15 DEF Used
    <3>2. e'[k][g] = e[k][g] /\ e[k][g].key \in Keys
      BY <2>4, <2>15, <3>1 DEF TablesTypeOK, Entries
    <3> QED
      BY <2>11, <2>13, <2>15, <3>1, <3>2
  <2>16. ASSUME NEW g \in Used(k)'
         PROVE  /\ e'[k][g].c = added'[k][e'[k][g].key]
                /\ e'[k][g].p = first'[k][e'[k][g].key]
                /\ e'[k][g].ok = (e'[k][g].key \in OkKeys)
                /\ \A i \in Used(k)' : e'[k][i].key = e'[k][g].key => i = g
    <3>1. CASE g = h
      <4>1. e'[k][g] = y /\ added'[k][key] = added[k][key] + c
            /\ first'[k][key] = IF added[k][key] = 0 THEN v ELSE first[k][key]
        BY <2>7, <3>1 DEF y
      <4>2. y.c = added'[k][key] /\ y.p = first'[k][key] /\ y.ok = (key \in OkKeys)
        BY <2>6, <2>11, <2>13, <4>1
      <4>3. \A i \in Used(k)' : e'[k][i].key = key => i = h
        BY <2>15
      <4> QED
        BY <2>6, <3>1, <4>1, <4>2, <4>3
    <3>2. CASE g # h
      <4>1. /\ g \in Used(k) /\ e'[k][g] = e[k][g]
            /\ e[k][g].key \in Keys /\ e[k][g].key # key
        BY <2>15, <3>2
      <4>2. /\ added'[k][e[k][g].key] = added[k][e[k][g].key]
            /\ first'[k][e[k][g].key] = first[k][e[k][g].key]
        BY <2>7, <4>1
      <4>3. /\ e[k][g].c = added[k][e[k][g].key] /\ e[k][g].p = first[k][e[k][g].key]
            /\ e[k][g].ok = (e[k][g].key \in OkKeys)
            /\ \A i \in Used(k) : e[k][i].key = e[k][g].key => i = g
        BY <2>12, <4>1 DEF IsBag
      <4>4. ASSUME NEW i \in Used(k)', e'[k][i].key = e[k][g].key PROVE i = g
        <5>1. i # h
          BY <2>6, <4>1, <4>4 DEF y
        <5> QED
          BY <2>15, <4>3, <4>4, <5>1
      <4> QED
        BY <4>1, <4>2, <4>3, <4>4
    <3> QED
      BY <3>1, <3>2
  <2>17. ASSUME NEW x \in Keys, added'[k][x] > 0 PROVE \E g \in Used(k)' : e'[k][g].key = x
    <3>1. CASE x = key
      BY <2>6, <2>10, <3>1 DEF y
    <3>2. CASE x # key
      <4>1. added[k][x] > 0
        BY <2>7, <2>17, <3>2
      <4>2. PICK g \in Used(k) : e[k][g].key = x
        BY <2>12, <4>1 DEF IsBag
      <4>3. g # h
        BY <2>5, <2>10, <3>2, <4>2
      <4> QED
        BY <2>10, <2>15, <4>2, <4>3
    <3> QED
      BY <3>1, <3>2
  <2>18. nhash'[k] = Cardinality(Used(k)')
    <3>1. IsFiniteSet(Used(k)) /\ nhash[k] = Cardinality(Used(k))
      <4>1. Used(k) \in SUBSET Slots
        BY DEF Used
      <4> QED
        BY <2>12, <4>1, Slotted, FS_Subset DEF IsBag
    <3>2. Cardinality(Used(k) \cup {h}) =
            IF h \in Used(k) THEN Cardinality(Used(k)) ELSE Cardinality(Used(k)) + 1
      BY <3>1, FS_AddElement
    <3> QED
      BY <2>7, <2>10, <3>1, <3>2
  <2>19. IsBag(k)'
    <3>1. nhash'[k] = Cardinality(Used(k))'
      BY <2>18
    <3> QED
      BY <2>14, <2>16, <2>17, <3>1 DEF IsBag
  <2> QED
    BY <2>2, <2>4, <2>7, <2>8, <2>9, <2>19
<1> QED
  BY <1>1, <1>2

\* An outcome is recorded: the sum has not begun.
LEMMA StepRecord ==
  ASSUME HashInv, NEW k \in Instances, NEW key \in Keys, NEW v \in Params, RecordOutcome(k, key, v)
  PROVE  HashInv'
<1>1. /\ ~exited /\ cursor = <<0, 0>> /\ cursor' = cursor /\ adds' = adds + 1
      /\ hash_add(k, key, v, 1, key \in OkKeys)
  BY DEF RecordOutcome
<1>2. k \in Tabs /\ Sum \in Tabs /\ k # Sum /\ 0 \in Instances /\ 0 \in Slots
  BY HashAssumption, Slotted DEF Tabs, Instances, Sum, Slots
<1>3. /\ TablesTypeOK' /\ \A t \in Tabs : IsBag(t)'
      /\ exited' => IsFull(k)'
      /\ ~exited' => \A t \in Tabs, x \in Keys :
                       added'[t][x] = IF t = k /\ x = key THEN added[t][x] + 1 ELSE added[t][x]
  <2> DEFINE ok == key \in OkKeys
             n == 1
  <2>1. ok \in BOOLEAN /\ n \in Nat /\ n > 0 /\ ok = (key \in OkKeys)
    OBVIOUS
  <2>2. hash_add(k, key, v, n, ok) /\ ~exited
    BY <1>1
  <2>3. TablesTypeOK /\ \A t \in Tabs : IsBag(t)
    BY DEF HashInv
  <2> HIDE DEF ok, n
  <2>4. /\ TablesTypeOK' /\ \A t \in Tabs : IsBag(t)'
        /\ exited' => IsFull(k)'
        /\ ~exited' => \A t \in Tabs, x \in Keys :
                         added'[t][x] = IF t = k /\ x = key THEN added[t][x] + n ELSE added[t][x]
    BY <1>2, <2>1, <2>2, <2>3, StepAdd
  <2> QED
    BY <2>4 DEF n
<1>4. CursorTypeOK'
  BY <1>1, <1>2 DEF HashInv, CursorTypeOK
<1>5. ASSUME ~exited', NEW x \in Keys
      PROVE  added'[Sum][x] =
               SumTabs([t \in Instances |-> added'[t][x]], 0 .. cursor'[1] - 1) + Merged(x)'
  <2>1. cursor[1] = 0 /\ cursor[2] = 0 /\ 0 .. 0 - 1 = {}
    BY <1>1
  <2>2. \A g \in Slots : ~(g < 0)
    BY Slotted DEF Slots
  <2>3. Merged(x) = 0 /\ Merged(x)' = 0
    BY <1>1, <2>1, <2>2 DEF Merged
  <2>4. added[Sum][x] = SumTabs([t \in Instances |-> added[t][x]], {}) + 0
    BY <1>1, <2>1, <2>3 DEF HashInv, SumInv
  <2>5. added'[Sum][x] = added[Sum][x]
    BY <1>2, <1>3, <1>5
  <2> QED
    BY <1>1, <2>1, <2>3, <2>4, <2>5, SumEmpty
<1>6. SumInv'
  BY <1>5 DEF SumInv
<1> QED
  BY <1>2, <1>3, <1>4, <1>6 DEF HashInv

\* The sum takes the entry under the cursor.
LEMMA StepAdds ==
  ASSUME HashInv, hash_adds
  PROVE  HashInv'
<1> DEFINE k == cursor[1]
           h == cursor[2]
           x == e[k][h]
<1>1. /\ ~exited /\ k \in Instances /\ h \in Slots /\ cursor = <<k, h>> /\ adds' = adds
      /\ cursor' = IF h + 1 < HASHSZ THEN <<k, h + 1>> ELSE <<k + 1, 0>>
      /\ k \in Tabs /\ k # Sum /\ Sum \in Tabs /\ x \in Entries
      /\ k \in Nat /\ nexe \in Nat /\ k < nexe
  <2>1. /\ ~exited /\ k < nexe /\ adds' = adds
        /\ cursor' = IF h + 1 < HASHSZ THEN <<k, h + 1>> ELSE <<k + 1, 0>>
    BY DEF hash_adds
  <2>2. nexe \in Nat /\ k \in Nat /\ k \in Instances /\ h \in Slots /\ cursor = <<k, h>>
    BY <2>1, HashAssumption DEF HashInv, CursorTypeOK
  <2>3. k \in Tabs /\ k # Sum /\ Sum \in Tabs
    BY <2>1, <2>2 DEF Tabs, Sum
  <2> QED
    BY <2>1, <2>2, <2>3 DEF HashInv, TablesTypeOK
<1> HIDE DEF k, h
<1>2. CursorTypeOK'
  <2>1. h + 1 < HASHSZ => h + 1 \in Slots
    BY <1>1, Slotted DEF Slots
  <2>2. k + 1 \in Instances \/ k + 1 = nexe
    BY <1>1 DEF Instances
  <2>3. 0 \in Slots /\ h + 1 \in Nat /\ k + 1 \in Nat
    BY <1>1, Slotted DEF Slots
  <2> QED
    BY <1>1, <2>1, <2>2, <2>3 DEF HashInv, CursorTypeOK
<1> DEFINE Taken(y) == IF x.c > 0 /\ y = x.key THEN x.c ELSE 0
<1>3. /\ TablesTypeOK' /\ \A t \in Tabs : IsBag(t)'
      /\ exited' => IsFull(Sum)'
      /\ ~exited' => /\ \A y \in Keys : added'[Sum][y] = added[Sum][y] + Taken(y)
                     /\ \A t \in Tabs, y \in Keys : t # Sum => added'[t][y] = added[t][y]
                     /\ \A t \in Tabs : t # Sum => e'[t] = e[t]
  <2>0. TablesTypeOK /\ \A t \in Tabs : IsBag(t)
    BY DEF HashInv
  <2>1. CASE x.c > 0
    <3>1. hash_add(Sum, x.key, x.p, x.c, x.ok)
      BY <2>1 DEF hash_adds, Times, k, h
    <3>2. h \in Used(k)
      BY <1>1, <2>1 DEF Used
    <3>3. x.ok = (x.key \in OkKeys)
      BY <1>1, <2>0, <3>2 DEF IsBag
    <3>4. x.key \in Keys /\ x.p \in Params /\ x.c \in Nat /\ x.ok \in BOOLEAN
      BY <1>1 DEF Entries
    <3> HIDE DEF x
    <3>5. /\ TablesTypeOK' /\ \A t \in Tabs : IsBag(t)'
          /\ exited' => IsFull(Sum)'
          /\ ~exited' => /\ \A t \in Tabs, y \in Keys :
                             added'[t][y] = IF t = Sum /\ y = x.key THEN added[t][y] + x.c
                                            ELSE added[t][y]
                         /\ \A t \in Tabs : t # Sum => e'[t] = e[t]
      BY <1>1, <2>0, <2>1, <3>1, <3>3, <3>4, StepAdd
    <3>6. \A y \in Keys : added[Sum][y] + 0 = added[Sum][y]
      BY <1>1, <2>0 DEF TablesTypeOK
    <3> QED
      BY <1>1, <2>1, <3>5, <3>6
  <2>2. CASE ~(x.c > 0)
    <3>1. UNCHANGED <<e, nhash, added, first, exited>>
      BY <2>2 DEF hash_adds, k, h
    <3>2. TablesTypeOK'
      BY <2>0, <3>1 DEF TablesTypeOK
    <3>3. ASSUME NEW t \in Tabs PROVE IsBag(t)'
      <4>1. IsBag(t) /\ Used(t)' = Used(t)
        BY <2>0, <3>1 DEF Used
      <4>2. Reachable(t)'
        BY <3>1, <4>1 DEF IsBag, Reachable, Probe
      <4> QED
        BY <3>1, <4>1, <4>2 DEF IsBag
    <3>4. \A y \in Keys : added[Sum][y] + 0 = added[Sum][y]
      BY <1>1, <2>0 DEF TablesTypeOK
    <3>5. \A y \in Keys : added'[Sum][y] = added[Sum][y] + Taken(y)
      BY <2>2, <3>1, <3>4
    <3> HIDE DEF Taken, x
    <3> QED
      BY <1>1, <3>1, <3>2, <3>3, <3>5
  <2> QED
    BY <2>1, <2>2
<1>4. ASSUME ~exited', NEW y \in Keys
      PROVE  added'[Sum][y] =
               SumTabs([t \in Instances |-> added'[t][y]], 0 .. cursor'[1] - 1) + Merged(y)'
  <2> DEFINE a == [t \in Instances |-> added[t][y]]
             Upto == IF \E g \in Slots : g <= h /\ e[k][g].c > 0 /\ e[k][g].key = y
                     THEN added[k][y] ELSE 0
             Seen == IF \E g \in Slots : g < h /\ e[k][g].c > 0 /\ e[k][g].key = y
                     THEN added[k][y] ELSE 0
  <2>1. [t \in Instances |-> added'[t][y]] = a /\ a \in [Instances -> Nat] /\ a[k] = added[k][y]
    <3>1. \A t \in Instances : t \in Tabs /\ t # Sum
      BY <1>1 DEF Instances, Tabs, Sum
    <3> QED
      BY <1>1, <1>3, <1>4, <3>1 DEF HashInv, TablesTypeOK
  <2>2. added[Sum][y] = SumTabs(a, 0 .. k - 1) + Seen /\ added[Sum][y] \in Nat
    BY <1>1 DEF HashInv, SumInv, Merged, TablesTypeOK, k, h
  <2>3. IsBag(k) /\ added[k][y] \in Nat /\ x.c \in Nat /\ (h \in Used(k) <=> x.c > 0)
    BY <1>1 DEF HashInv, TablesTypeOK, Entries, Used
  <2>4. Upto = Seen + Taken(y)
    <3>0. \A g \in Slots : g <= h <=> g < h \/ g = h
      BY <1>1, Slotted DEF Slots
    <3>1. CASE x.c > 0 /\ y = x.key
      <4>1. /\ x.c = added[k][y]
            /\ \A g \in Used(k) : e[k][g].key = y => g = h
        BY <2>3, <3>1 DEF IsBag
      <4>2. \A g \in Slots : g < h => ~(e[k][g].c > 0 /\ e[k][g].key = y)
        <5>1. ~(h < h)
          BY <1>1, Slotted DEF Slots
        <5> QED
          BY <4>1, <5>1 DEF Used
      <4>3. Seen = 0
        BY <4>2
      <4>4. Upto = added[k][y]
        BY <1>1, <3>0, <3>1
      <4> HIDE DEF Seen, Upto, x
      <4> QED
        BY <2>3, <3>1, <4>1, <4>3, <4>4
    <3>2. CASE ~(x.c > 0 /\ y = x.key)
      <4>1. Upto = Seen
        BY <3>0, <3>2
      <4>2. Seen \in Nat
        BY <2>3
      <4> HIDE DEF Seen, Upto
      <4> QED
        BY <3>2, <4>1, <4>2
    <3> QED
      BY <3>1, <3>2
  <2>5. added'[Sum][y] = SumTabs(a, 0 .. k - 1) + Upto
    <3>1. added'[Sum][y] = added[Sum][y] + Taken(y)
      BY <1>3, <1>4
    <3>2. Taken(y) \in Nat /\ Seen \in Nat
      BY <2>3
    <3>3. SumTabs(a, 0 .. k - 1) \in Nat
      <4>1. 0 .. k - 1 \in SUBSET Instances
        BY <1>1 DEF Instances
      <4>2. CASE k = 0
        <5> DEFINE R == 0 .. k - 1
        <5>1. R = {}
          BY <4>2
        <5> HIDE DEF a, R
        <5>2. SumTabs(a, R) = 0
          BY <5>1, SumEmpty
        <5> QED
          BY <5>2 DEF R
      <4>3. CASE k # 0
        <5> DEFINE R == 0 .. k - 1
        <5>1. R \in SUBSET Instances /\ 0 \in R
          BY <1>1, <4>1, <4>3
        <5> HIDE DEF a, R
        <5>2. SumTabs(a, R) \in Nat
          BY <2>1, <5>1, FiniteInsts, SumStep
        <5> QED
          BY <5>2 DEF R
      <4> QED
        BY <4>2, <4>3
    <3> HIDE DEF Taken, Seen, Upto, a
    <3> QED
      BY <2>2, <2>4, <3>1, <3>2, <3>3
  <2>6. CASE h + 1 < HASHSZ
    <3>1. cursor'[1] = k /\ cursor'[2] = h + 1 /\ e'[k] = e[k] /\ added'[k][y] = added[k][y]
      BY <1>1, <1>3, <1>4, <2>6
    <3>2. \A g \in Slots : g <= h <=> g < h + 1
      BY <1>1, Slotted DEF Slots
    <3>3. Merged(y)' = Upto
      BY <3>1, <3>2 DEF Merged
    <3> QED
      BY <2>1, <2>5, <3>1, <3>3
  <2>7. CASE ~(h + 1 < HASHSZ)
    <3>1. cursor'[1] = k + 1 /\ cursor'[2] = 0 /\ (k + 1) - 1 = k
      BY <1>1, <2>7
    <3>2. \A g \in Slots : g <= h /\ ~(g < 0)
      BY <1>1, <2>7, Slotted DEF Slots
    <3>3. Merged(y)' = 0
      BY <3>1, <3>2 DEF Merged
    <3>4. Upto = added[k][y]
      <4>1. CASE added[k][y] > 0
        BY <2>3, <3>2, <4>1 DEF IsBag, Used
      <4>2. CASE added[k][y] = 0
        BY <4>2
      <4> QED
        BY <2>3, <4>1, <4>2
    <3>5. /\ SumTabs(a, 0 .. k) \in Nat /\ SumTabs(a, 0 .. k - 1) \in Nat
          /\ SumTabs(a, 0 .. k) = a[k] + SumTabs(a, 0 .. k - 1)
      <4> DEFINE R == 0 .. k
      <4>1. R \in SUBSET Instances /\ k \in R
        BY <1>1 DEF Instances
      <4>2. R \ {k} = 0 .. k - 1
        BY <1>1
      <4> HIDE DEF a, R
      <4>3. /\ SumTabs(a, R) \in Nat /\ SumTabs(a, R \ {k}) \in Nat
            /\ SumTabs(a, R) = a[k] + SumTabs(a, R \ {k})
        BY <2>1, <4>1, FiniteInsts, SumStep
      <4> QED
        BY <4>2, <4>3 DEF R
    <3> HIDE DEF Upto, a
    <3>6. added'[Sum][y] = SumTabs(a, 0 .. k) + 0
      BY <2>1, <2>3, <2>5, <3>4, <3>5
    <3> QED
      BY <2>1, <3>1, <3>3, <3>6
  <2> QED
    BY <2>6, <2>7
<1>5. SumInv'
  BY <1>4 DEF SumInv
<1> QED
  BY <1>1, <1>2, <1>3, <1>5 DEF HashInv
-----------------------------------------------------------------------------
LEMMA InitHash == HashInit => HashInv
<1> SUFFICES ASSUME HashInit PROVE HashInv
  OBVIOUS
<1>0. nexe \in Nat /\ nexe > 0 /\ 0 \in Instances /\ 0 \in Slots
  BY HashAssumption, Slotted DEF Instances, Slots
<1>1. Free \in Entries /\ Free.p \in Params /\ Free.c = 0
  BY HashAssumption DEF Free, Entries
<1>2. TablesTypeOK
  BY <1>1 DEF HashInit, TablesTypeOK
<1>3. CursorTypeOK
  BY <1>0 DEF HashInit, CursorTypeOK
<1>4. ASSUME NEW k \in Tabs PROVE IsBag(k)
  <2>1. Used(k) = {}
    BY <1>1 DEF HashInit, Used
  <2>2. \A key \in Keys : added[k][key] = 0
    BY DEF HashInit
  <2>3. nhash[k] = 0
    BY DEF HashInit
  <2> QED
    BY <2>1, <2>2, <2>3, FS_EmptySet DEF IsBag, Reachable
<1>5. ~exited
  BY DEF HashInit
<1>6. ASSUME NEW key \in Keys
      PROVE  added[Sum][key] = SumTabs([k \in Instances |-> added[k][key]], 0 .. cursor[1] - 1) + Merged(key)
  <2>1. cursor[1] = 0 /\ cursor[2] = 0 /\ 0 .. 0 - 1 = {}
    BY DEF HashInit
  <2>2. \A g \in Slots : ~(g < 0)
    BY Slotted DEF Slots
  <2>3. Merged(key) = 0
    BY <2>1, <2>2 DEF Merged
  <2>4. added[Sum][key] = 0
    BY DEF HashInit, Tabs
  <2> QED
    BY <2>1, <2>3, <2>4, SumEmpty
<1> QED
  BY <1>2, <1>3, <1>4, <1>5, <1>6 DEF HashInv, SumInv

LEMMA StepHash == HashInv /\ [HashNext]_hashVars => HashInv'
<1> SUFFICES ASSUME HashInv, [HashNext]_hashVars PROVE HashInv'
  OBVIOUS
<1>1. CASE UNCHANGED hashVars
  <2>1. e' = e /\ nhash' = nhash /\ cursor' = cursor /\ exited' = exited
        /\ adds' = adds /\ added' = added /\ first' = first
    BY <1>1 DEF hashVars
  <2>2. \A k : Used(k)' = Used(k)
    BY <2>1 DEF Used
  <2>3. ASSUME NEW k \in Tabs PROVE IsBag(k)'
    <3>1. IsBag(k) /\ Used(k)' = Used(k)
      BY <2>2 DEF HashInv
    <3>2. Reachable(k)'
      BY <2>1, <3>1 DEF IsBag, Reachable, Probe
    <3> QED
      BY <2>1, <3>1, <3>2 DEF IsBag
  <2>4. TablesTypeOK' /\ CursorTypeOK'
    BY <2>1 DEF HashInv, TablesTypeOK, CursorTypeOK
  <2>5. exited' => \E k \in Tabs : IsFull(k)'
    BY <2>1, <2>2 DEF HashInv, IsFull
  <2>6. SumInv'
    BY <2>1 DEF HashInv, SumInv, Merged
  <2> QED
    BY <2>3, <2>4, <2>5, <2>6 DEF HashInv
<1> QED
  BY <1>1, StepRecord, StepAdds DEF HashNext, HashFinished

\* The tables, the cursor and the sum are as HashInv says, at all times.
THEOREM HashInvariance == HashSpec => []HashInv
  BY InitHash, StepHash, PTL DEF HashSpec

\* Each table of outcomes is the bag of the outcomes added to it, whatever the
\* hash function and the collisions.
THEOREM TablesAreBags == HashSpec => []TableIsBag
<1>1. HashInv => TableIsBag
  BY DEF HashInv, IsBag, TableIsBag
<1> QED
  BY <1>1, HashInvariance, PTL

\* "Hash table is full" is true when it is printed.
THEOREM FullIsFull == HashSpec => []FullWhenFull
<1>1. ASSUME TablesTypeOK, NEW k \in Tabs, IsBag(k), IsFull(k)
      PROVE  Used(k) = Slots /\ Cardinality(Keys) > HASHSZ
  <2>1. Used(k) = Slots
    BY <1>1 DEF IsFull
  <2>2. PICK key \in Keys : \A h \in Slots : e[k][h].key # key
    BY <1>1 DEF IsFull
  <2> DEFINE f == [h \in Slots |-> e[k][h].key]
             T == Keys \ {key}
  <2>3. f \in [Slots -> T]
    BY <1>1, <2>2 DEF TablesTypeOK, Entries
  <2>4. \A g, h \in Slots : f[g] = f[h] => g = h
    BY <1>1, <2>1 DEF IsBag
  <2>5. f \in Injection(Slots, T)
    BY <2>3, <2>4 DEF Injection, IsInjective
  <2>6. /\ IsFiniteSet(T) /\ Cardinality(T) = Cardinality(Keys) - 1
        /\ Cardinality(Keys) \in Nat
    BY HashAssumption, FS_RemoveElement, FS_CardinalityType
  <2> HIDE DEF f, T
  <2>7. Cardinality(Slots) <= Cardinality(T)
    BY <2>5, <2>6, FS_Injection
  <2> QED
    BY <2>1, <2>6, <2>7, Slotted
<1>2. HashInv => FullWhenFull
  BY <1>1 DEF HashInv, FullWhenFull
<1> QED
  BY <1>2, HashInvariance, PTL

\* The outcomes counted in the sum are those that the instances have recorded.
THEOREM SumCorrect == HashSpec => []SumIsTotal
<1>1. HashInv => SumIsTotal
  <2> SUFFICES ASSUME HashInv, Over, ~exited, NEW key \in Keys
               PROVE  added[Sum][key] = SumTabs([k \in Instances |-> added[k][key]], Instances)
    BY DEF SumIsTotal
  <2>1. nexe \in Nat /\ cursor[1] = nexe
    BY HashAssumption DEF Over
  <2>2. cursor[2] = 0 /\ 0 .. nexe - 1 = Instances
    BY <2>1 DEF HashInv, CursorTypeOK, Instances
  <2>3. \A g \in Slots : ~(g < 0)
    BY Slotted DEF Slots
  <2>4. Merged(key) = 0
    BY <2>2, <2>3 DEF Merged
  <2>5. added[Sum][key] = SumTabs([k \in Instances |-> added[k][key]], Instances) + 0
    BY <2>1, <2>2, <2>4 DEF HashInv, SumInv
  <2>6. SumTabs([k \in Instances |-> added[k][key]], Instances) \in Nat
    <3> DEFINE a == [k \in Instances |-> added[k][key]]
    <3>1. a \in [Instances -> Nat]
      BY DEF HashInv, TablesTypeOK, Tabs
    <3>2. IsFiniteSet(Instances) /\ 0 \in Instances
      BY <2>1, FiniteInsts, HashAssumption DEF Instances
    <3> HIDE DEF a
    <3>3. SumTabs(a, Instances) \in Nat
      BY <3>1, <3>2, SumStep
    <3> QED
      BY <3>3 DEF a
  <2> QED
    BY <2>5, <2>6
<1> QED
  BY <1>1, HashInvariance, PTL

-----------------------------------------------------------------------------
(***************************************************************************)
(* The presi harness keeps its crews and its iterations apart, for any     *)
(* number of threads, roles, instances, rows and runs: the two levels of   *)
(* barriers, g->gb between the runs and ctx->b within an iteration, are    *)
(* enough for what each role reads to be of its own iteration.             *)
(***************************************************************************)
(***************************************************************************)
(* Positions in the script of an iteration.                                *)
(***************************************************************************)
One(b) == IF b THEN 1 ELSE 0
G == One(cfg.globals)
C == One(cfg.cache)
F == One(cfg.finals)
Syncs == 4 + G + C + F          \* barriers of an iteration
Common == 10 + G + C + 2 * F    \* operations that all the roles have
Total(r) == Common + 2 * One(r = 0)

\* The operations before each operation that is not a barrier.
Where(op) ==
  CASE op = "param" -> 1       [] op = "cache" -> 2 + G
    [] op = "vars" -> 4 + G    [] op = "tb" -> 5 + G + C
    [] op = "tb0" -> 7 + G + C [] op = "out" -> 8 + G + C
    [] op = "final" -> 10 + G + C
    [] op = "log" -> Common    [] op = "hash_add" -> Common + 1

\* The barriers among the first p operations.
Passed(p) ==
  One(p >= 1) + One(G = 1 /\ p >= 3) + One(p >= 4 + G) +
  One(C = 1 /\ p >= 6 + G) + One(p >= 7 + G + C) + One(p >= 10 + G + C) +
  One(F = 1 /\ p >= 12 + G + C)

Ops == {"sync", "gsync", "param", "cache", "vars", "tb", "tb0", "out", "final", "log", "hash_add",
        "set_role", "init", "go", "wait_go"}

\* The script q is what remains of an iteration of role r.
Remains(q, r) ==
  /\ q \in Seq(Ops) /\ Len(q) <= Total(r)
  /\ \A i \in 1 .. Len(q) : q[i] = Iteration(r)[Total(r) - Len(q) + i]

(***************************************************************************)
(* Where a thread stands.                                                  *)
(***************************************************************************)
Running(t) == nrun[t] >= 0 /\ nrun[t] < nruns
InIteration(t) == Running(t) /\ s[t] >= 0
InSetRole(t) == Running(t) /\ s[t] = -1 /\ todo[t] # <<>>
AtBar(t) == At(t, "sync") \/ At(t, "gsync")
Pos(t) == Total(myrole[t]) - Len(todo[t])

\* Iterations that the thread has begun, and barriers of the instance it has
\* passed (with its role).
Begun(t) == IF nrun[t] >= nruns THEN nruns * size ELSE Now(t)
Rem(t) == IF InIteration(t) THEN Syncs - Passed(Pos(t)) ELSE 0
Behind(t) == Syncs * Begun(t) - Rem(t)

\* Calls of set_role that the thread has begun, barriers g->gb it has passed,
\* and roles it has received.
Starts(t) ==
  IF nrun[t] = -1 \/ nruns = 0 THEN 0
  ELSE IF Fixed THEN 1 ELSE IF nrun[t] >= nruns THEN nruns ELSE nrun[t] + 1
GRem(t) == IF InSetRole(t) THEN (IF Len(todo[t]) = 3 THEN 2 ELSE 1) ELSE 0
GBehind(t) == 2 * Starts(t) - GRem(t)
Held(t) == Starts(t) - One(InSetRole(t) /\ Len(todo[t]) >= 2)

\* The row of the topology of the h-th role, and the first run with it.
RowOf(h) == IF Fixed THEN cfg.part ELSE draws[h - 1]
Base(h) == IF Fixed THEN 0 ELSE (h - 1) * size

TypeInv ==
  /\ cfg \in Settings /\ draws \in [0 .. nruns - 1 -> Parts] /\ go \in {0, 1}
  /\ todo \in [Tids -> Seq(Ops)] /\ spin \in [Tids -> BOOLEAN]
  /\ ms \in [Tids -> {0, 1}] /\ nrun \in [Tids -> -1 .. nruns]
  /\ s \in [Tids -> -1 .. size - 1]
  /\ ctx \in [Tids -> -1 .. NEXE - 1] /\ myrole \in [Tids -> -1 .. N - 1]
  /\ barr \in [Bars -> [c : Int, sense : {0, 1}]]
  /\ data \in [Insts -> [Kinds -> [Roles -> Int]]]
  /\ next_tb \in [Insts -> Int \X Int] /\ tb0 \in [Tids -> Int \X Int]
  /\ count \in [Insts -> Int]

\* What remains of the script goes with the run, the iteration and the role.
ScriptOf(t) ==
  /\ nrun[t] = -1 =>
       /\ s[t] = 0 /\ ctx[t] = -1 /\ myrole[t] = -1
       /\ t = 0 => todo[t] \in {<<"init", "go">>, <<"go">>, <<>>}
       /\ t # 0 => todo[t] \in {<<"wait_go">>, <<>>}
       /\ todo[t] = <<>> => go = 1
       /\ t = 0 /\ todo[t] # <<>> => go = 0
  /\ nrun[t] >= 0 => go = 1
  /\ Running(t) /\ s[t] = -1 =>
       /\ todo[t] \in {SetRole, <<"set_role", "gsync">>, <<"gsync">>, <<>>}
       /\ Fixed /\ nrun[t] > 0 => todo[t] = <<>> /\ myrole[t] < 0
  /\ InIteration(t) => myrole[t] >= 0 /\ Remains(todo[t], myrole[t])
  /\ nrun[t] = nruns =>
       /\ todo[t] = <<>>
       /\ nruns > 0 => s[t] = (IF myrole[t] >= 0 THEN size - 1 ELSE -1)
  /\ (ctx[t] >= 0) <=> (myrole[t] >= 0)
  /\ spin[t] => AtBar(t)

ScriptInv == \A t \in Tids : ScriptOf(t)

\* The role of a thread is the one of the row it has seen last.
RoleOf(t) ==
  LET k == inst[RowOf(Held(t))][t]
      ok == Held(t) > 0 /\ 0 <= k /\ k < cfg.nexe
  IN  /\ ctx[t] = IF ok THEN k ELSE -1
      /\ myrole[t] = IF ok THEN role[RowOf(Held(t))][t] ELSE -1

RowInv == \A t \in Tids : RoleOf(t)

\* The threads of a barrier that has been closed R times: those that wait
\* there for round R, and those that wait no more.
Waits(t) == spin[t] /\ ms[t] = barr[Bar(t)].sense
Round(R, t, op, behind) ==
  behind = IF At(t, op) /\ spin[t] /\ ~Waits(t) THEN R - 1 ELSE R

Ready == go = 1 \/ todo[0] = <<"go">>
GlobalInv(R) ==
  /\ \A t \in Tids : Round(R, t, "gsync", GBehind(t))
  /\ Ready => barr[GB].c = AVAIL - Cardinality({t \in Tids : At(t, "gsync") /\ Waits(t)})

Waiting(k) == {t \in Tids : ctx[t] = k /\ At(t, "sync") /\ Waits(t)}
InstOf(k) ==
  /\ \E R \in Int : \A t \in Tids : ctx[t] = k => Round(R, t, "sync", Behind(t))
  /\ Ready => barr[k].c = N - Cardinality(Waiting(k))

InstInv == \A k \in Insts : InstOf(k)

\* The iteration in which the thread has written its share last.
Latest(t, op) == Begun(t) - One(InIteration(t) /\ Pos(t) <= Where(op))
DataInv ==
  \A t \in Tids, what \in Kinds :
    /\ ctx[t] >= 0 /\ (what = "final" => cfg.finals)
    /\ Latest(t, what) > Base(Held(t))
    => data[ctx[t]][what][myrole[t]] = Latest(t, what)

TimeInv ==
  \A t \in Tids :
    InIteration(t) =>
      /\ Pos(t) > Where("tb") => next_tb[ctx[t]][2] = Now(t)
      /\ Pos(t) > Where("tb0") => tb0[t] = next_tb[ctx[t]]

\* Outcomes: those of the rows before, and those of the present one.
Past(k, h) == size * Cardinality({r \in Active(k) : ~Fixed /\ r < h})
CountOf(k, R) ==
  IF R = 0 THEN count[k] = 0
  ELSE IF R % 2 = 1 THEN count[k] = Past(k, (R - 1) \div 2)
  ELSE /\ \A t \in Tids : ctx[t] = k /\ myrole[t] = 0 =>
            count[k] = Past(k, (R \div 2) - 1) + (Latest(t, "hash_add") - Base(R \div 2))
       /\ (\A t \in Tids : ctx[t] = k => myrole[t] # 0) => count[k] = Past(k, (R \div 2) - 1)

CountInv(R) == \A k \in Insts : CountOf(k, R)

GlobalIInv == \E R \in Nat : GlobalInv(R) /\ CountInv(R)
IInv == TypeInv /\ ScriptInv /\ RowInv /\ InstInv /\ GlobalIInv /\ DataInv /\ TimeInv
-----------------------------------------------------------------------------
(***************************************************************************)
(* The script of an iteration.                                             *)
(***************************************************************************)
LEMMA Flags ==
  ASSUME cfg \in Settings
  PROVE  /\ G \in {0, 1} /\ C \in {0, 1} /\ F \in {0, 1}
         /\ cfg.globals <=> G = 1
         /\ cfg.cache <=> C = 1
         /\ cfg.finals <=> F = 1
         /\ cfg.globals \in BOOLEAN /\ cfg.cache \in BOOLEAN /\ cfg.finals \in BOOLEAN
         /\ cfg.part \in Parts \cup {-1} /\ cfg.nexe \in 1 .. NEXE
<1>1. /\ cfg.globals \in BOOLEAN /\ cfg.cache \in BOOLEAN /\ cfg.finals \in BOOLEAN
      /\ cfg.part \in Parts \cup {-1} /\ cfg.nexe \in 1 .. NEXE
  BY SettingsAssumption
<1> QED
  BY <1>1 DEF G, C, F, One

\* The operation at each place of the script.
OpAt(i, op) ==
  /\ op = "sync" <=> \/ i \in {1, 4 + G, 7 + G + C, 10 + G + C}
                     \/ G = 1 /\ i = 3
                     \/ C = 1 /\ i = 6 + G
                     \/ F = 1 /\ i = 12 + G + C
  /\ op = "param" <=> i = 2
  /\ op = "cache" <=> i = 3 + G
  /\ op = "vars" <=> i = 5 + G
  /\ op = "tb" <=> i = 6 + G + C
  /\ op = "tb0" <=> i = 8 + G + C
  /\ op = "out" <=> i = 9 + G + C
  /\ op = "final" <=> F = 1 /\ i = 11 + G + C
  /\ op = "log" <=> i = Common + 1
  /\ op = "hash_add" <=> i = Common + 2
  /\ op \in Ops /\ op \notin {"gsync", "set_role", "init", "go", "wait_go"}

LEMMA Concat ==
  ASSUME NEW a \in Seq(Ops), NEW b \in Seq(Ops)
  PROVE  /\ a \o b \in Seq(Ops) /\ Len(a \o b) = Len(a) + Len(b)
         /\ \A i \in 1 .. Len(a) + Len(b) :
              (a \o b)[i] = IF i <= Len(a) THEN a[i] ELSE b[i - Len(a)]
  BY ConcatProperties

LEMMA Scripts ==
  ASSUME cfg \in Settings, NEW r \in Int
  PROVE  /\ Iteration(r) \in Seq(Ops)
         /\ Len(Iteration(r)) = Total(r)
         /\ \A i \in 1 .. Total(r) : OpAt(i, Iteration(r)[i])
<1> DEFINE a1 == <<"sync", "param">>
           a2 == Opt(cfg.globals, <<"sync">>)
           a3 == <<"cache">>
           a4 == <<"sync", "vars">>
           a5 == Opt(cfg.cache, <<"sync">>)
           a6 == <<"tb", "sync", "tb0", "out", "sync">>
           a7 == Opt(cfg.finals, <<"final", "sync">>)
           a8 == Opt(r = 0, <<"log", "hash_add">>)
           p2 == a1 \o a2
           p3 == p2 \o a3
           p4 == p3 \o a4
           p5 == p4 \o a5
           p6 == p5 \o a6
           p7 == p6 \o a7
           p8 == p7 \o a8
           L == One(r = 0)
<1>1. Iteration(r) = p8
  BY DEF Iteration
<1>2. /\ G \in {0, 1} /\ C \in {0, 1} /\ F \in {0, 1} /\ L \in {0, 1}
  BY Flags DEF One
<1>3. /\ a1 \in Seq(Ops) /\ Len(a1) = 2 /\ a1[1] = "sync" /\ a1[2] = "param"
      /\ a3 \in Seq(Ops) /\ Len(a3) = 1 /\ a3[1] = "cache"
      /\ a4 \in Seq(Ops) /\ Len(a4) = 2 /\ a4[1] = "sync" /\ a4[2] = "vars"
  BY DEF Ops
<1>4. /\ a2 \in Seq(Ops) /\ Len(a2) = G /\ (G = 1 => a2[1] = "sync")
  <2> DEFINE q == <<"sync">>
  <2>1. q \in Seq(Ops) /\ Len(q) = 1 /\ q[1] = "sync"
    BY DEF Ops
  <2>2. a2 = IF G = 1 THEN q ELSE <<>>
    BY Flags DEF Opt
  <2> HIDE DEF q, a2
  <2>3. CASE G = 1
    BY <2>1, <2>2, <2>3
  <2>4. CASE G # 1
    BY <1>2, <2>2, <2>4
  <2> QED
    BY <2>3, <2>4
<1>5. /\ a5 \in Seq(Ops) /\ Len(a5) = C /\ (C = 1 => a5[1] = "sync")
  <2> DEFINE q == <<"sync">>
  <2>1. q \in Seq(Ops) /\ Len(q) = 1 /\ q[1] = "sync"
    BY DEF Ops
  <2>2. a5 = IF C = 1 THEN q ELSE <<>>
    BY Flags DEF Opt
  <2> HIDE DEF q, a5
  <2>3. CASE C = 1
    BY <2>1, <2>2, <2>3
  <2>4. CASE C # 1
    BY <1>2, <2>2, <2>4
  <2> QED
    BY <2>3, <2>4
<1>6. /\ a6 \in Seq(Ops) /\ Len(a6) = 5 /\ a6[1] = "tb" /\ a6[2] = "sync" /\ a6[3] = "tb0"
      /\ a6[4] = "out" /\ a6[5] = "sync"
  BY DEF Ops
<1>7. /\ a7 \in Seq(Ops) /\ Len(a7) = 2 * F /\ (F = 1 => a7[1] = "final" /\ a7[2] = "sync")
  <2> DEFINE q == <<"final", "sync">>
  <2>1. q \in Seq(Ops) /\ Len(q) = 2 /\ q[1] = "final" /\ q[2] = "sync"
    BY DEF Ops
  <2>2. a7 = IF F = 1 THEN q ELSE <<>>
    BY Flags DEF Opt
  <2> HIDE DEF q, a7
  <2>3. CASE F = 1
    BY <2>1, <2>2, <2>3
  <2>4. CASE F # 1
    BY <1>2, <2>2, <2>4
  <2> QED
    BY <2>3, <2>4
<1>8. /\ a8 \in Seq(Ops) /\ Len(a8) = 2 * L /\ (L = 1 => a8[1] = "log" /\ a8[2] = "hash_add")
  <2> DEFINE q == <<"log", "hash_add">>
  <2>1. q \in Seq(Ops) /\ Len(q) = 2 /\ q[1] = "log" /\ q[2] = "hash_add"
    BY DEF Ops
  <2>2. a8 = IF L = 1 THEN q ELSE <<>>
    BY DEF Opt, One
  <2> HIDE DEF q, a8, L
  <2>3. CASE L = 1
    BY <2>1, <2>2, <2>3
  <2>4. CASE L # 1
    BY <1>2, <2>2, <2>4
  <2> QED
    BY <2>3, <2>4
<1> HIDE DEF a1, a2, a3, a4, a5, a6, a7, a8
<1>p2. /\ p2 \in Seq(Ops) /\ Len(p2) = 2 + G
       /\ \A i \in 1 .. 2 + G : p2[i] = IF i <= 2 THEN a1[i] ELSE a2[i - 2]
  <2>1. /\ p2 \in Seq(Ops) /\ Len(p2) = Len(a1) + Len(a2)
        /\ \A i \in 1 .. Len(a1) + Len(a2) : p2[i] = IF i <= Len(a1) THEN a1[i] ELSE a2[i - Len(a1)]
    BY <1>2, <1>3, <1>4, Concat
  <2> HIDE DEF p2
  <2> QED
    BY <1>2, <1>3, <1>4, <2>1
<1> HIDE DEF p2
<1>p3. /\ p3 \in Seq(Ops) /\ Len(p3) = 3 + G
       /\ \A i \in 1 .. 3 + G : p3[i] = IF i <= 2 + G THEN p2[i] ELSE a3[i - (2 + G)]
  <2>1. /\ p3 \in Seq(Ops) /\ Len(p3) = Len(p2) + Len(a3)
        /\ \A i \in 1 .. Len(p2) + Len(a3) : p3[i] = IF i <= Len(p2) THEN p2[i] ELSE a3[i - Len(p2)]
    BY <1>2, <1>3, <1>p2, Concat
  <2> HIDE DEF p3
  <2> QED
    BY <1>2, <1>3, <1>p2, <2>1
<1> HIDE DEF p3
<1>p4. /\ p4 \in Seq(Ops) /\ Len(p4) = 5 + G
       /\ \A i \in 1 .. 5 + G : p4[i] = IF i <= 3 + G THEN p3[i] ELSE a4[i - (3 + G)]
  <2>1. /\ p4 \in Seq(Ops) /\ Len(p4) = Len(p3) + Len(a4)
        /\ \A i \in 1 .. Len(p3) + Len(a4) : p4[i] = IF i <= Len(p3) THEN p3[i] ELSE a4[i - Len(p3)]
    BY <1>2, <1>3, <1>p3, Concat
  <2> HIDE DEF p4
  <2> QED
    BY <1>2, <1>3, <1>p3, <2>1
<1> HIDE DEF p4
<1>p5. /\ p5 \in Seq(Ops) /\ Len(p5) = 5 + G + C
       /\ \A i \in 1 .. 5 + G + C : p5[i] = IF i <= 5 + G THEN p4[i] ELSE a5[i - (5 + G)]
  <2>1. /\ p5 \in Seq(Ops) /\ Len(p5) = Len(p4) + Len(a5)
        /\ \A i \in 1 .. Len(p4) + Len(a5) : p5[i] = IF i <= Len(p4) THEN p4[i] ELSE a5[i - Len(p4)]
    BY <1>2, <1>5, <1>p4, Concat
  <2> HIDE DEF p5
  <2> QED
    BY <1>2, <1>5, <1>p4, <2>1
<1> HIDE DEF p5
<1>p6. /\ p6 \in Seq(Ops) /\ Len(p6) = 10 + G + C
       /\ \A i \in 1 .. 10 + G + C : p6[i] = IF i <= 5 + G + C THEN p5[i] ELSE a6[i - (5 + G + C)]
  <2>1. /\ p6 \in Seq(Ops) /\ Len(p6) = Len(p5) + Len(a6)
        /\ \A i \in 1 .. Len(p5) + Len(a6) : p6[i] = IF i <= Len(p5) THEN p5[i] ELSE a6[i - Len(p5)]
    BY <1>2, <1>6, <1>p5, Concat
  <2> HIDE DEF p6
  <2> QED
    BY <1>2, <1>6, <1>p5, <2>1
<1> HIDE DEF p6
<1>p7. /\ p7 \in Seq(Ops) /\ Len(p7) = Common
       /\ \A i \in 1 .. Common : p7[i] = IF i <= 10 + G + C THEN p6[i] ELSE a7[i - (10 + G + C)]
  <2>1. /\ p7 \in Seq(Ops) /\ Len(p7) = Len(p6) + Len(a7)
        /\ \A i \in 1 .. Len(p6) + Len(a7) : p7[i] = IF i <= Len(p6) THEN p6[i] ELSE a7[i - Len(p6)]
    BY <1>2, <1>7, <1>p6, Concat
  <2> HIDE DEF p7
  <2> QED
    BY <1>2, <1>7, <1>p6, <2>1 DEF Common
<1> HIDE DEF p7
<1>p8. /\ p8 \in Seq(Ops) /\ Len(p8) = Total(r)
       /\ \A i \in 1 .. Total(r) : p8[i] = IF i <= Common THEN p7[i] ELSE a8[i - Common]
  <2>1. /\ p8 \in Seq(Ops) /\ Len(p8) = Len(p7) + Len(a8)
        /\ \A i \in 1 .. Len(p7) + Len(a8) : p8[i] = IF i <= Len(p7) THEN p7[i] ELSE a8[i - Len(p7)]
    BY <1>2, <1>8, <1>p7, Concat
  <2> HIDE DEF p8
  <2> QED
    BY <1>2, <1>8, <1>p7, <2>1 DEF Common, Total
<1> HIDE DEF p8
<1>9. ASSUME NEW i \in 1 .. Total(r) PROVE OpAt(i, p8[i])
  <2>0. i \in Int /\ i >= 1 /\ i <= Common + 2 * L /\ Common = 10 + G + C + 2 * F
        /\ L \in {0, 1} /\ F \in {0, 1} /\ C \in {0, 1} /\ G \in {0, 1}
    BY <1>2 DEF Total, Common
  <2> HIDE DEF L
  <2>1. CASE i > Common
    <3>1. p8[i] = a8[i - Common] /\ L = 1 /\ i \in {Common + 1, Common + 2}
      <4>1. p8[i] = IF i <= Common THEN p7[i] ELSE a8[i - Common]
        BY <1>p8
      <4>2. L = 1 /\ i \in {Common + 1, Common + 2} /\ ~(i <= Common)
        BY <2>0, <2>1
      <4> QED
        BY <4>1, <4>2
    <3>2. p8[i] = IF i = Common + 1 THEN "log" ELSE "hash_add"
      BY <1>8, <2>0, <3>1
    <3> QED
      BY <2>0, <3>1, <3>2 DEF OpAt, Ops
  <2>2. CASE i <= Common /\ i > 10 + G + C
    <3>1. p8[i] = p7[i] /\ p7[i] = a7[i - (10 + G + C)] /\ F = 1 /\ i \in {11 + G + C, 12 + G + C}
      <4>1. i \in 1 .. Common /\ ~(i <= 10 + G + C) /\ F = 1 /\ i \in {11 + G + C, 12 + G + C}
        BY <2>0, <2>2
      <4>2. p8[i] = p7[i]
        BY <1>p8, <2>2
      <4>3. p7[i] = a7[i - (10 + G + C)]
        BY <1>p7, <4>1
      <4> QED
        BY <4>1, <4>2, <4>3
    <3>2. p8[i] = IF i = 11 + G + C THEN "final" ELSE "sync"
      BY <1>7, <2>0, <3>1
    <3> QED
      BY <2>0, <3>1, <3>2 DEF OpAt, Ops
  <2>3. CASE i <= 10 + G + C /\ i > 5 + G + C
    <3>1. p8[i] = p7[i]
      BY <1>p8, <2>0, <2>3
    <3>2. p7[i] = p6[i]
      BY <1>p7, <2>0, <2>3
    <3>3. p6[i] = a6[i - (5 + G + C)]
      BY <1>p6, <2>0, <2>3
    <3>4. i - (5 + G + C) \in 1 .. 5
      BY <2>0, <2>3
    <3>5. p8[i] = IF i = 6 + G + C THEN "tb" ELSE IF i = 8 + G + C THEN "tb0"
                  ELSE IF i = 9 + G + C THEN "out" ELSE "sync"
      BY <1>6, <2>0, <2>3, <3>1, <3>2, <3>3, <3>4
    <3> QED
      BY <2>0, <2>3, <3>5 DEF OpAt, Ops
  <2>4. CASE i <= 5 + G + C /\ i > 3 + G
    <3>1. p8[i] = p7[i] /\ p7[i] = p6[i] /\ p6[i] = p5[i]
      <4>1. /\ i \in 1 .. Common /\ i <= Common /\ i <= 10 + G + C /\ i <= 5 + G + C
            /\ i \in 1 .. 10 + G + C
        BY <2>0, <2>4
      <4>2. p8[i] = p7[i]
        BY <1>p8, <4>1
      <4>3. p7[i] = p6[i]
        BY <1>p7, <4>1
      <4>4. p6[i] = p5[i]
        BY <1>p6, <4>1
      <4> QED
        BY <4>2, <4>3, <4>4
    <3>2. p5[i] = IF i = 5 + G THEN "vars" ELSE "sync"
      BY <1>3, <1>5, <1>p5, <1>p4, <2>0, <2>4
    <3> QED
      BY <2>0, <2>4, <3>1, <3>2 DEF OpAt, Ops
  <2>5. CASE i <= 3 + G
    <3>1. p8[i] = p7[i] /\ p7[i] = p6[i] /\ p6[i] = p5[i] /\ p5[i] = p4[i] /\ p4[i] = p3[i]
      <4>1. /\ i \in 1 .. Common /\ i <= Common /\ i <= 10 + G + C /\ i <= 5 + G + C /\ i <= 5 + G
            /\ i \in 1 .. 10 + G + C /\ i \in 1 .. 5 + G + C /\ i \in 1 .. 5 + G
        BY <2>0, <2>5
      <4>2. p8[i] = p7[i] /\ p7[i] = p6[i]
        BY <1>p8, <1>p7, <4>1
      <4>3. p6[i] = p5[i] /\ p5[i] = p4[i] /\ p4[i] = p3[i]
        BY <1>p6, <1>p5, <1>p4, <2>5, <4>1
      <4> QED
        BY <4>2, <4>3
    <3>2. p3[i] = IF i = 3 + G THEN "cache" ELSE IF i = 2 THEN "param" ELSE "sync"
      BY <1>3, <1>4, <1>p3, <1>p2, <2>0, <2>5
    <3> QED
      BY <2>0, <2>5, <3>1, <3>2 DEF OpAt, Ops
  <2> QED
    BY <2>0, <2>1, <2>2, <2>3, <2>4, <2>5
<1> QED
  BY <1>1, <1>p8, <1>9
-----------------------------------------------------------------------------
(***************************************************************************)
(* Positions.                                                              *)
(***************************************************************************)
LEMMA Tails ==
  ASSUME cfg \in Settings, NEW r \in Int, NEW q, Remains(q, r), q # <<>>
  PROVE  /\ Total(r) - Len(q) \in Nat /\ Len(q) > 0
         /\ OpAt(Total(r) - Len(q) + 1, Head(q))
         /\ Remains(Tail(q), r) /\ Len(Tail(q)) = Len(q) - 1
<1> DEFINE n == Len(q)
           m == Total(r)
           b == Tail(q)
<1>1. /\ q \in Seq(Ops) /\ n \in Nat /\ n > 0 /\ n <= m /\ Head(q) = q[1]
      /\ b \in Seq(Ops) /\ Len(b) = n - 1
      /\ \A i \in 1 .. n - 1 : b[i] = q[i + 1]
  BY HeadTailProperties, EmptySeq DEF Remains
<1>2. m \in Int
  BY Flags DEF Total, Common, One
<1>3. /\ \A i \in 1 .. n : q[i] = Iteration(r)[m - n + i]
      /\ \A i \in 1 .. m : OpAt(i, Iteration(r)[i])
  BY Scripts DEF Remains
<1> HIDE DEF n, m, b
<1>4. OpAt(m - n + 1, q[1])
  <2>1. 1 \in 1 .. n /\ m - n + 1 \in 1 .. m
    BY <1>1, <1>2
  <2> QED
    BY <1>3, <2>1
<1>5. \A i \in 1 .. n - 1 : b[i] = Iteration(r)[m - (n - 1) + i]
  <2> SUFFICES ASSUME NEW i \in 1 .. n - 1 PROVE b[i] = Iteration(r)[m - (n - 1) + i]
    OBVIOUS
  <2>1. i + 1 \in 1 .. n /\ m - n + (i + 1) = m - (n - 1) + i
    BY <1>1, <1>2
  <2> QED
    BY <1>1, <1>3, <2>1
<1> QED
  BY <1>1, <1>2, <1>4, <1>5 DEF n, m, b, Remains

\* An iteration from its beginning.
LEMMA Whole ==
  ASSUME cfg \in Settings, NEW r \in Int
  PROVE  /\ Remains(Iteration(r), r) /\ Len(Iteration(r)) = Total(r)
         /\ Total(r) \in Nat /\ Total(r) >= Common /\ Common \in Nat /\ Common >= 10
         /\ r = 0 => Total(r) = Common + 2
         /\ r # 0 => Total(r) = Common
<1>1. /\ Total(r) \in Nat /\ Total(r) >= Common /\ Common \in Nat /\ Common >= 10
      /\ r = 0 => Total(r) = Common + 2
      /\ r # 0 => Total(r) = Common
  BY Flags DEF Total, Common, One
<1> DEFINE q == Iteration(r)
           m == Total(r)
<1>2. q \in Seq(Ops) /\ Len(q) = m
  BY Scripts
<1>3. m \in Nat
  BY <1>1
<1> HIDE DEF q, m
<1>4. \A i \in 1 .. Len(q) : m - Len(q) + i = i
  BY <1>2, <1>3
<1>5. \A i \in 1 .. Len(q) : q[i] = q[m - Len(q) + i]
  BY <1>4
<1>6. Len(q) <= m
  BY <1>2, <1>3
<1> QED
  BY <1>1, <1>2, <1>5, <1>6 DEF Remains, q, m

LEMMA Barriers ==
  ASSUME cfg \in Settings, NEW p \in Nat
  PROVE  /\ Syncs \in Nat /\ Syncs \in 4 .. 7 /\ Passed(p) \in 0 .. Syncs
         /\ Passed(0) = 0
         /\ p >= Common => Passed(p) = Syncs
         /\ \A op : OpAt(p + 1, op) => Passed(p + 1) = Passed(p) + One(op = "sync")
<1>1. G \in {0, 1} /\ C \in {0, 1} /\ F \in {0, 1}
  BY Flags
<1>2. /\ Syncs \in 4 .. 7 /\ Passed(p) \in 0 .. Syncs
      /\ Passed(0) = 0
      /\ p >= Common => Passed(p) = Syncs
  BY <1>1 DEF Syncs, Passed, Common, One
<1>3. ASSUME NEW op, OpAt(p + 1, op) PROVE Passed(p + 1) = Passed(p) + One(op = "sync")
  <2>1. op = "sync" <=> \/ p + 1 \in {1, 4 + G, 7 + G + C, 10 + G + C}
                        \/ G = 1 /\ p + 1 = 3
                        \/ C = 1 /\ p + 1 = 6 + G
                        \/ F = 1 /\ p + 1 = 12 + G + C
    BY <1>3 DEF OpAt
  <2> QED
    BY <1>1, <2>1 DEF Passed, One
<1> QED
  BY <1>2, <1>3

\* An operation is where Where says.
Steps == Kinds \cup {"tb", "tb0", "log", "hash_add"}
LEMMA Places ==
  ASSUME cfg \in Settings, NEW p \in Nat, NEW op, OpAt(p + 1, op),
         NEW w \in Steps, w = "final" => cfg.finals
  PROVE  op = w <=> p = Where(w)
<1>1. /\ G \in {0, 1} /\ C \in {0, 1} /\ F \in {0, 1} /\ (w = "final" => F = 1)
      /\ Common = 10 + G + C + 2 * F
  BY Flags DEF Common
<1>2. w \in {"param", "cache", "vars", "out", "final", "tb", "tb0", "log", "hash_add"}
  BY DEF Steps, Kinds
<1>3. /\ op = "param" <=> p + 1 = 2
      /\ op = "cache" <=> p + 1 = 3 + G
      /\ op = "vars" <=> p + 1 = 5 + G
      /\ op = "tb" <=> p + 1 = 6 + G + C
      /\ op = "tb0" <=> p + 1 = 8 + G + C
      /\ op = "out" <=> p + 1 = 9 + G + C
      /\ op = "final" <=> F = 1 /\ p + 1 = 11 + G + C
      /\ op = "log" <=> p + 1 = Common + 1
      /\ op = "hash_add" <=> p + 1 = Common + 2
  BY DEF OpAt
<1> QED
  BY <1>1, <1>2, <1>3 DEF Where

\* The operations of an iteration are within the script of each role that has
\* them.
LEMMA WhereFacts ==
  ASSUME cfg \in Settings, NEW w \in Steps, w = "final" => cfg.finals
  PROVE  /\ Where(w) \in Nat /\ Where(w) > 0
         /\ w \in Kinds => Where(w) < Common
         /\ w = "hash_add" => Where(w) = Common + 1
<1>1. /\ G \in {0, 1} /\ C \in {0, 1} /\ F \in {0, 1} /\ (w = "final" => F = 1)
      /\ Common = 10 + G + C + 2 * F
  BY Flags DEF Common
<1>2. w \in {"param", "cache", "vars", "out", "final", "tb", "tb0", "log", "hash_add"}
  BY DEF Steps, Kinds
<1>3. w \in Kinds <=> w \in {"param", "cache", "vars", "out", "final"}
  BY DEF Kinds
<1>4. /\ Where("param") = 1 /\ Where("cache") = 2 + G /\ Where("vars") = 4 + G
      /\ Where("tb") = 5 + G + C /\ Where("tb0") = 7 + G + C /\ Where("out") = 8 + G + C
      /\ Where("final") = 10 + G + C /\ Where("log") = Common /\ Where("hash_add") = Common + 1
  BY DEF Where
<1> QED
  BY <1>1, <1>2, <1>3, <1>4

(***************************************************************************)
(* Where a thread stands.                                                  *)
(***************************************************************************)
SetRoles == {SetRole, <<"set_role", "gsync">>, <<"gsync">>, <<>>}
LEMMA ShortScripts ==
  /\ SetRole # <<>> /\ Len(SetRole) = 3 /\ Head(SetRole) = "gsync" /\ Tail(SetRole) = <<"set_role", "gsync">>
  /\ <<"set_role", "gsync">> # <<>> /\ Len(<<"set_role", "gsync">>) = 2
  /\ Head(<<"set_role", "gsync">>) = "set_role" /\ Tail(<<"set_role", "gsync">>) = <<"gsync">>
  /\ <<"gsync">> # <<>> /\ Len(<<"gsync">>) = 1 /\ Head(<<"gsync">>) = "gsync" /\ Tail(<<"gsync">>) = <<>>
  /\ <<"init", "go">> # <<>> /\ Head(<<"init", "go">>) = "init" /\ Tail(<<"init", "go">>) = <<"go">>
  /\ <<"go">> # <<>> /\ Head(<<"go">>) = "go" /\ Tail(<<"go">>) = <<>>
  /\ <<"wait_go">> # <<>> /\ Head(<<"wait_go">>) = "wait_go" /\ Tail(<<"wait_go">>) = <<>>
  BY DEF SetRole

LEMMA Parameters ==
  /\ AVAIL \in Nat /\ AVAIL > 0 /\ N \in Nat /\ N > 0 /\ NEXE \in Nat /\ NEXE > 0
  /\ nruns \in Nat /\ size \in Nat /\ size > 0 /\ 0 \in Tids /\ 0 \in Roles
  /\ IsFiniteSet(Tids) /\ Cardinality(Tids) = AVAIL
<1>1. /\ AVAIL \in Nat /\ AVAIL > 0 /\ N \in Nat /\ N > 0 /\ NEXE \in Nat /\ NEXE > 0
      /\ nruns \in Nat /\ size \in Nat /\ size > 0
  BY SettingsAssumption
<1>2. IsFiniteSet(Tids) /\ Cardinality(Tids) = AVAIL
  BY <1>1, FS_Interval DEF Tids
<1> QED
  BY <1>1, <1>2 DEF Tids, Roles

LEMMA RolesFinite == IsFiniteSet(Roles) /\ Cardinality(Roles) = N
<1>1. N \in Nat /\ N > 0
  BY Parameters
<1> QED
  BY <1>1, FS_Interval DEF Roles

\* What a thread has to do next tells where it is.
LEMMA Stands ==
  ASSUME TypeInv, ScriptInv, NEW t \in Tids
  PROVE  /\ InIteration(t) =>
              /\ myrole[t] \in Roles /\ ctx[t] \in Insts
              /\ Pos(t) \in Nat /\ Pos(t) <= Total(myrole[t])
              /\ todo[t] = <<>> <=> Pos(t) = Total(myrole[t])
              /\ todo[t] # <<>> => OpAt(Pos(t) + 1, Head(todo[t]))
         /\ todo[t] # <<>> =>
              \/ InIteration(t) /\ ~InSetRole(t)
              \/ InSetRole(t) /\ ~InIteration(t) /\ todo[t] \in SetRoles
              \/ nrun[t] = -1 /\ Head(todo[t]) \in {"init", "go", "wait_go"} /\ ~spin[t]
         /\ todo[t] = <<>> => ~spin[t]
<1>1. /\ cfg \in Settings /\ todo[t] \in Seq(Ops) /\ nrun[t] \in -1 .. nruns
      /\ s[t] \in -1 .. size - 1 /\ ctx[t] \in -1 .. NEXE - 1 /\ myrole[t] \in -1 .. N - 1
  BY DEF TypeInv
<1>2. ASSUME InIteration(t)
      PROVE  /\ myrole[t] \in Roles /\ ctx[t] \in Insts
             /\ Pos(t) \in Nat /\ Pos(t) <= Total(myrole[t])
             /\ todo[t] = <<>> <=> Pos(t) = Total(myrole[t])
             /\ todo[t] # <<>> => OpAt(Pos(t) + 1, Head(todo[t]))
  <2>1. myrole[t] >= 0 /\ Remains(todo[t], myrole[t]) /\ ctx[t] >= 0
    BY <1>2 DEF ScriptInv, ScriptOf
  <2>2. myrole[t] \in Roles /\ ctx[t] \in Insts /\ myrole[t] \in Int
    BY <1>1, <2>1, Parameters DEF Roles, Insts
  <2>3. Len(todo[t]) \in Nat /\ Len(todo[t]) <= Total(myrole[t]) /\ (todo[t] = <<>> <=> Len(todo[t]) = 0)
    BY <1>1, <2>1, EmptySeq DEF Remains
  <2>4. Total(myrole[t]) \in Nat
    BY <1>1, <2>2, Whole
  <2>5. todo[t] # <<>> => OpAt(Pos(t) + 1, Head(todo[t]))
    BY <1>1, <2>1, <2>2, Tails DEF Pos
  <2> QED
    BY <2>2, <2>3, <2>4, <2>5 DEF Pos
<1>3. ASSUME todo[t] # <<>>
      PROVE  \/ InIteration(t) /\ ~InSetRole(t)
             \/ InSetRole(t) /\ ~InIteration(t) /\ todo[t] \in SetRoles
             \/ nrun[t] = -1 /\ Head(todo[t]) \in {"init", "go", "wait_go"} /\ ~spin[t]
  <2>1. CASE nrun[t] = -1
    <3>1. todo[t] \in {<<"init", "go">>, <<"go">>, <<"wait_go">>}
      BY <1>3, <2>1 DEF ScriptInv, ScriptOf
    <3>2. Head(todo[t]) \in {"init", "go", "wait_go"}
      BY <3>1, ShortScripts
    <3>3. ~AtBar(t)
      BY <3>2 DEF AtBar, At
    <3> QED
      BY <2>1, <3>2, <3>3 DEF ScriptInv, ScriptOf
  <2>2. CASE nrun[t] = nruns
    BY <1>3, <2>2 DEF ScriptInv, ScriptOf
  <2>3. CASE Running(t) /\ s[t] = -1
    BY <1>3, <2>3 DEF ScriptInv, ScriptOf, InSetRole, InIteration, SetRoles
  <2>4. CASE Running(t) /\ s[t] >= 0
    BY <1>3, <2>4 DEF InSetRole, InIteration
  <2> QED
    BY <1>1, <2>1, <2>2, <2>3, <2>4, Parameters DEF Running
<1>4. todo[t] = <<>> => ~spin[t]
  BY DEF ScriptInv, ScriptOf, AtBar, At
<1> QED
  BY <1>2, <1>3, <1>4

\* The same with g->gb: how many times a thread has yet to wait there.
LEMMA GlobalPlace ==
  ASSUME TypeInv, ScriptInv, NEW t \in Tids
  PROVE  /\ Starts(t) \in 0 .. nruns /\ GRem(t) \in {0, 1, 2} /\ Held(t) \in 0 .. nruns
         /\ GRem(t) = 0 => ~At(t, "gsync") /\ ~At(t, "set_role") /\ ~InSetRole(t) /\ Held(t) = Starts(t)
         /\ GRem(t) = 1 /\ At(t, "gsync") => todo[t] = <<"gsync">> /\ Held(t) = Starts(t)
         /\ GRem(t) = 1 /\ ~At(t, "gsync") =>
              At(t, "set_role") /\ todo[t] = <<"set_role", "gsync">> /\ Held(t) = Starts(t) - 1
         /\ GRem(t) = 2 => At(t, "gsync") /\ todo[t] = SetRole /\ Held(t) = Starts(t) - 1
         /\ InSetRole(t) <=> GRem(t) # 0
         /\ InSetRole(t) => Starts(t) = nrun[t] + 1 /\ s[t] = -1 /\ Begun(t) = nrun[t] * size
                            /\ (Fixed => nrun[t] = 0) /\ ~InIteration(t) /\ Rem(t) = 0
                            /\ nrun[t] \in 0 .. nruns - 1
         /\ InIteration(t) => GRem(t) = 0 /\ Starts(t) > 0 /\ (~Fixed => Starts(t) = nrun[t] + 1)
<1>1. /\ nrun[t] \in -1 .. nruns /\ nruns \in Nat /\ size \in Nat /\ size > 0
      /\ s[t] \in -1 .. size - 1 /\ nrun[t] \in Int /\ s[t] \in Int
  BY Parameters DEF TypeInv
<1>2. Starts(t) \in 0 .. nruns
  BY <1>1 DEF Starts
<1>3. CASE ~InSetRole(t)
  <2>1. GRem(t) = 0 /\ Held(t) = Starts(t)
    BY <1>2, <1>3 DEF GRem, Held, One
  <2>2. ~At(t, "gsync") /\ ~At(t, "set_role")
    <3>1. todo[t] # <<>> => InIteration(t) \/ Head(todo[t]) \in {"init", "go", "wait_go"}
      BY <1>3, Stands
    <3>2. todo[t] # <<>> /\ InIteration(t) => Head(todo[t]) \notin {"gsync", "set_role"}
      BY Stands DEF OpAt
    <3> QED
      BY <3>1, <3>2 DEF At
  <2>3. InIteration(t) => Starts(t) > 0 /\ (~Fixed => Starts(t) = nrun[t] + 1)
    BY <1>1 DEF InIteration, Running, Starts
  <2> QED
    BY <1>2, <1>3, <2>1, <2>2, <2>3
<1>4. CASE InSetRole(t)
  <2>1. Running(t) /\ s[t] = -1 /\ todo[t] # <<>>
    BY <1>4 DEF InSetRole
  <2>2. todo[t] \in {SetRole, <<"set_role", "gsync">>, <<"gsync">>} /\ (Fixed => nrun[t] = 0)
    BY <1>1, <2>1 DEF ScriptInv, ScriptOf, Running
  <2>3. Starts(t) = nrun[t] + 1 /\ nrun[t] \in 0 .. nruns - 1
    BY <1>1, <2>1, <2>2 DEF Starts, Running
  <2>4. Begun(t) = nrun[t] * size /\ ~InIteration(t) /\ Rem(t) = 0
    <3>1. ~InIteration(t) /\ Rem(t) = 0
      BY <1>1, <2>1 DEF InIteration, Rem
    <3>2. Begun(t) = nrun[t] * size + (-1) + 1
      BY <1>1, <2>1 DEF Begun, Running, Now
    <3>3. nrun[t] * size \in Int
      BY <1>1
    <3> HIDE DEF Now
    <3> QED
      BY <3>1, <3>2, <3>3
  <2>5. CASE todo[t] = SetRole
    <3>1. GRem(t) = 2 /\ Held(t) = Starts(t) - 1
      BY <1>4, <2>5, ShortScripts DEF GRem, Held, One
    <3>2. At(t, "gsync")
      BY <2>5, ShortScripts DEF At
    <3> QED
      BY <1>1, <1>2, <1>4, <2>1, <2>2, <2>3, <2>4, <2>5, <3>1, <3>2
  <2>6. CASE todo[t] = <<"set_role", "gsync">>
    <3>1. GRem(t) = 1 /\ Held(t) = Starts(t) - 1
      BY <1>4, <2>6, ShortScripts DEF GRem, Held, One
    <3>2. At(t, "set_role") /\ ~At(t, "gsync")
      BY <2>6, ShortScripts DEF At
    <3> QED
      BY <1>1, <1>2, <1>4, <2>1, <2>2, <2>3, <2>4, <2>6, <3>1, <3>2
  <2>7. CASE todo[t] = <<"gsync">>
    <3>1. GRem(t) = 1 /\ Held(t) = Starts(t)
      BY <1>2, <1>4, <2>7, ShortScripts DEF GRem, Held, One
    <3>2. At(t, "gsync")
      BY <2>7, ShortScripts DEF At
    <3> QED
      BY <1>1, <1>2, <1>4, <2>1, <2>2, <2>3, <2>4, <2>7, <3>1, <3>2
  <2> QED
    BY <2>2, <2>5, <2>6, <2>7
<1> QED
  BY <1>3, <1>4

(***************************************************************************)
(* What the rounds of g->gb say of all the threads.  After an even number  *)
(* of rounds all hold the role of the same row; after an odd one all are   *)
(* in set_role.                                                            *)
(***************************************************************************)
LEMMA EvenRound ==
  ASSUME TypeInv, ScriptInv, NEW h \in Nat, GlobalInv(2 * h)
  PROVE  /\ \A t \in Tids : Held(t) = h
         /\ h <= nruns
<1>1. ASSUME NEW t \in Tids PROVE Held(t) = h
  <2>1. GBehind(t) = 2 * h \/ (At(t, "gsync") /\ GBehind(t) = 2 * h - 1)
    BY DEF GlobalInv, Round
  <2>2. GBehind(t) = 2 * Starts(t) - GRem(t)
    BY DEF GBehind
  <2>3. /\ Starts(t) \in Nat /\ GRem(t) \in {0, 1, 2}
        /\ GRem(t) = 0 => Held(t) = Starts(t)
        /\ GRem(t) = 1 /\ At(t, "gsync") => Held(t) = Starts(t)
        /\ GRem(t) = 2 => Held(t) = Starts(t) - 1
    BY GlobalPlace, Parameters
  <2> QED
    BY <2>1, <2>2, <2>3
<1>2. Held(0) <= nruns
  BY GlobalPlace, Parameters
<1> QED
  BY <1>1, <1>2, Parameters

LEMMA OddRound ==
  ASSUME TypeInv, ScriptInv, NEW h \in Nat, GlobalInv(2 * h + 1)
  PROVE  /\ \A t \in Tids : /\ InSetRole(t) /\ Starts(t) = h + 1 /\ nrun[t] = h
                            /\ Begun(t) = h * size /\ Rem(t) = 0
         /\ h < nruns /\ (Fixed => h = 0)
<1>1. ASSUME NEW t \in Tids
      PROVE  /\ InSetRole(t) /\ Starts(t) = h + 1 /\ nrun[t] = h
             /\ Begun(t) = h * size /\ Rem(t) = 0 /\ h < nruns /\ (Fixed => h = 0)
  <2>1. GBehind(t) = 2 * h + 1 \/ (At(t, "gsync") /\ GBehind(t) = 2 * h)
    BY DEF GlobalInv, Round
  <2>2. GBehind(t) = 2 * Starts(t) - GRem(t)
    BY DEF GBehind
  <2>3. /\ Starts(t) \in Nat /\ GRem(t) \in {0, 1, 2}
        /\ GRem(t) = 0 => ~At(t, "gsync")
    BY GlobalPlace, Parameters
  <2>4. GRem(t) # 0 /\ Starts(t) = h + 1
    BY <2>1, <2>2, <2>3
  <2>5. /\ InSetRole(t) /\ Starts(t) = nrun[t] + 1 /\ Begun(t) = nrun[t] * size
        /\ (Fixed => nrun[t] = 0) /\ Rem(t) = 0 /\ nrun[t] \in 0 .. nruns - 1
    BY <2>4, GlobalPlace
  <2>6. nrun[t] = h
    BY <2>4, <2>5, Parameters
  <2> QED
    BY <2>4, <2>5, <2>6, Parameters
<1> QED
  BY <1>1, Parameters

\* The number of rounds is even while somebody iterates, odd in set_role.
LEMMA Parity ==
  ASSUME TypeInv, ScriptInv, NEW R \in Nat, GlobalInv(R), NEW t \in Tids
  PROVE  /\ InIteration(t) => R = 2 * Starts(t) /\ Starts(t) \in Nat /\ Starts(t) > 0
         /\ At(t, "set_role") => R = 2 * nrun[t] + 1 /\ nrun[t] \in Nat
         /\ At(t, "gsync") /\ ~spin[t] => R = 2 * Starts(t) - GRem(t)
<1>1. R = 2 * Starts(t) - GRem(t) \/ (At(t, "gsync") /\ spin[t])
  BY DEF GlobalInv, Round, GBehind
<1>2. ~(At(t, "gsync") /\ At(t, "set_role"))
  BY DEF At
<1>3. At(t, "set_role") => /\ GRem(t) # 0 /\ InSetRole(t) /\ GRem(t) # 2
  BY <1>2, GlobalPlace
<1> QED
  BY <1>1, <1>2, <1>3, GlobalPlace, Parameters

(***************************************************************************)
(* Crews: the threads of an instance are those of its row, one a role.     *)
(***************************************************************************)
Members(k) == {t \in Tids : ctx[t] = k}

LEMMA Crews ==
  ASSUME TypeInv, RowInv, NEW h \in Nat, h > 0, h <= nruns, \A t \in Tids : Held(t) = h,
         NEW k \in Insts
  PROVE  /\ RowOf(h) \in Parts
         /\ Members(k) = IF k < cfg.nexe THEN Crew(RowOf(h), k) ELSE {}
         /\ IsFiniteSet(Members(k))
         /\ Members(k) # {} =>
              /\ Cardinality(Members(k)) = N
              /\ \A r \in Roles : \E t \in Members(k) : myrole[t] = r
              /\ \A t, u \in Members(k) : myrole[t] = myrole[u] => t = u
<1> DEFINE row == RowOf(h)
<1>1. row \in Parts
  <2>1. cfg.part \in Parts \cup {-1}
    BY Flags DEF TypeInv
  <2>2. CASE Fixed
    BY <2>1, <2>2 DEF RowOf, Fixed, Parts
  <2>3. CASE ~Fixed
    <3>1. h - 1 \in 0 .. nruns - 1
      BY Parameters
    <3> QED
      BY <2>3, <3>1 DEF RowOf, TypeInv
  <2> QED
    BY <2>2, <2>3
<1> HIDE DEF row
<1>2. inst[row] \in [Tids -> -1 .. NEXE - 1] /\ role[row] \in [Tids -> -1 .. N - 1]
  BY <1>1, TopologyAssumption
<1>3. \A t \in Tids : LET j == inst[row][t]
                          ok == 0 <= j /\ j < cfg.nexe
                      IN  /\ ctx[t] = IF ok THEN j ELSE -1
                          /\ myrole[t] = IF ok THEN role[row][t] ELSE -1
  BY DEF RowInv, RoleOf, row
<1>4. k \in Int /\ k >= 0 /\ cfg.nexe \in Int
  BY Flags DEF Insts, TypeInv
<1>5. \A t \in Tids : /\ ctx[t] = k <=> inst[row][t] = k /\ k < cfg.nexe
                      /\ ctx[t] = k => myrole[t] = role[row][t]
  BY <1>2, <1>3, <1>4
<1>6. Members(k) = IF k < cfg.nexe THEN Crew(row, k) ELSE {}
  BY <1>5 DEF Members, Crew
<1>7. IsFiniteSet(Members(k))
  BY Parameters, FS_Subset DEF Members
<1>8. ASSUME Members(k) # {}
      PROVE  /\ Cardinality(Members(k)) = N
             /\ \A r \in Roles : \E t \in Members(k) : myrole[t] = r
             /\ \A t, u \in Members(k) : myrole[t] = myrole[u] => t = u
  <2> DEFINE f == [t \in Members(k) |-> role[row][t]]
  <2>1. Members(k) = Crew(row, k) /\ Crew(row, k) # {}
    BY <1>6, <1>8
  <2>2. Cardinality(Members(k)) = N /\ {role[row][t] : t \in Members(k)} = Roles
    BY <1>1, <2>1, TopologyAssumption
  <2>3. \A t \in Members(k) : myrole[t] = role[row][t]
    BY <1>5 DEF Members
  <2>4. f \in Surjection(Members(k), Roles)
    BY <2>2 DEF Surjection
  <2>5. IsFiniteSet(Roles) /\ Cardinality(Roles) = N
    BY RolesFinite
  <2>6. f \in Injection(Members(k), Roles)
    BY <1>7, <2>2, <2>4, <2>5, FS_SurjSameCardinalityImpliesInj
  <2>7. \A t, u \in Members(k) : role[row][t] = role[row][u] => t = u
    BY <2>6 DEF Injection, IsInjective
  <2> QED
    BY <2>2, <2>3, <2>7
<1> QED
  BY <1>1, <1>6, <1>7, <1>8 DEF row

\* The crew of a thread that iterates.
LEMMA CrewOf ==
  ASSUME TypeInv, ScriptInv, RowInv, NEW R \in Nat, GlobalInv(R),
         NEW t \in Tids, InIteration(t), NEW k, k = ctx[t]
  PROVE  /\ k \in Insts /\ t \in Members(k) /\ IsFiniteSet(Members(k))
         /\ \A u \in Tids : Held(u) = Starts(t)
         /\ Cardinality(Members(k)) = N
         /\ \A r \in Roles : \E u \in Members(k) : myrole[u] = r
         /\ \A u, v \in Members(k) : myrole[u] = myrole[v] => u = v
<1>1. R = 2 * Starts(t) /\ Starts(t) \in Nat /\ Starts(t) > 0
  BY Parity
<1>2. (\A u \in Tids : Held(u) = Starts(t)) /\ Starts(t) <= nruns
  BY <1>1, EvenRound
<1>3. k \in Insts /\ t \in Members(k)
  BY Stands DEF Members
<1> QED
  BY <1>1, <1>2, <1>3, Crews

-----------------------------------------------------------------------------
(***************************************************************************)
(* What a step does to the place of a thread.                              *)
(***************************************************************************)
LEMMA SameScript ==
  ASSUME cfg' = cfg
  PROVE  /\ Syncs' = Syncs /\ Common' = Common /\ Fixed' = Fixed /\ G' = G /\ C' = C /\ F' = F
         /\ \A r : Iteration(r)' = Iteration(r) /\ Total(r)' = Total(r)
         /\ \A p : Passed(p)' = Passed(p)
         /\ \A w : Where(w)' = Where(w)
         /\ \A q, r : Remains(q, r)' <=> Remains(q, r)
<1>1. G' = G /\ C' = C /\ F' = F
  BY DEF G, C, F
<1>2. Common' = Common /\ Syncs' = Syncs
  BY <1>1 DEF Common, Syncs
<1>3. \A r : Iteration(r)' = Iteration(r)
  BY DEF Iteration
<1>4. \A r : Total(r)' = Total(r)
  BY <1>2 DEF Total
<1>5. \A p : Passed(p)' = Passed(p)
  BY <1>1 DEF Passed
<1>6. \A w : Where(w)' = Where(w)
  BY <1>1, <1>2 DEF Where
<1>7. \A q, r : Remains(q, r)' <=> Remains(q, r)
  BY <1>3, <1>4 DEF Remains
<1> QED
  BY <1>1, <1>2, <1>3, <1>4, <1>5, <1>6, <1>7 DEF Fixed

\* The step of another thread.
LEMMA Elsewhere ==
  ASSUME NEW u \in Tids, cfg' = cfg, nrun'[u] = nrun[u], s'[u] = s[u],
         todo'[u] = todo[u], myrole'[u] = myrole[u]
  PROVE  /\ (InIteration(u)' <=> InIteration(u)) /\ (InSetRole(u)' <=> InSetRole(u))
         /\ (Running(u)' <=> Running(u))
         /\ Now(u)' = Now(u) /\ Begun(u)' = Begun(u) /\ Rem(u)' = Rem(u) /\ Behind(u)' = Behind(u)
         /\ Starts(u)' = Starts(u) /\ GRem(u)' = GRem(u) /\ GBehind(u)' = GBehind(u)
         /\ Held(u)' = Held(u) /\ Pos(u)' = Pos(u)
         /\ \A w : Latest(u, w)' = Latest(u, w)
         /\ \A op : At(u, op)' <=> At(u, op)
<1>1. /\ (Running(u)' <=> Running(u)) /\ Now(u)' = Now(u)
      /\ \A op : At(u, op)' <=> At(u, op)
  BY DEF Running, Now, At
<1>2. (InIteration(u)' <=> InIteration(u)) /\ (InSetRole(u)' <=> InSetRole(u))
  BY <1>1 DEF InIteration, InSetRole
<1>3. Pos(u)' = Pos(u) /\ Begun(u)' = Begun(u)
  BY <1>1, SameScript DEF Pos, Begun
<1>4. Rem(u)' = Rem(u)
  BY <1>2, <1>3, SameScript DEF Rem
<1>5. Behind(u)' = Behind(u)
  BY <1>3, <1>4, SameScript DEF Behind
<1>6. Starts(u)' = Starts(u) /\ GRem(u)' = GRem(u)
  BY <1>2, SameScript DEF Starts, GRem
<1>7. GBehind(u)' = GBehind(u) /\ Held(u)' = Held(u)
  BY <1>2, <1>6 DEF GBehind, Held
<1>8. \A w : Latest(u, w)' = Latest(u, w)
  BY <1>2, <1>3, SameScript DEF Latest
<1> QED
  BY <1>1, <1>2, <1>3, <1>4, <1>5, <1>6, <1>7, <1>8

Advance(t) == todo[t] # <<>> /\ todo' = [todo EXCEPT ![t] = Tail(@)]

LEMMA Nows ==
  ASSUME TypeInv, NEW t \in Tids
  PROVE  Now(t) \in Int /\ Begun(t) \in Int /\ nrun[t] \in Int /\ s[t] \in Int
<1>1. nrun[t] \in Int /\ s[t] \in Int /\ size \in Int /\ nruns \in Int
  BY Parameters DEF TypeInv
<1>2. nrun[t] * size \in Int /\ nruns * size \in Int
  BY <1>1
<1> QED
  BY <1>1, <1>2 DEF Now, Begun

\* One more operation of the iteration.
LEMMA AdvanceIteration ==
  ASSUME TypeInv, ScriptInv, NEW t \in Tids, Advance(t), InIteration(t),
         cfg' = cfg, nrun'[t] = nrun[t], s'[t] = s[t], myrole'[t] = myrole[t]
  PROVE  /\ InIteration(t)' /\ ~InSetRole(t)' /\ Remains(todo[t], myrole[t])'
         /\ Pos(t)' = Pos(t) + 1 /\ Now(t)' = Now(t) /\ Begun(t)' = Now(t) /\ Begun(t) = Now(t)
         /\ Rem(t)' = Rem(t) - One(At(t, "sync"))
         /\ Rem(t) \in 0 .. Syncs /\ Rem(t)' \in 0 .. Syncs
         /\ Starts(t)' = Starts(t) /\ GRem(t)' = GRem(t) /\ GBehind(t)' = GBehind(t)
         /\ Held(t)' = Held(t)
         /\ \A w \in Steps : (w = "final" => cfg.finals) =>
              Latest(t, w)' = IF At(t, w) THEN Now(t) ELSE Latest(t, w)
<1> DEFINE p == Pos(t)
           r == myrole[t]
           op == Head(todo[t])
<1>1. /\ cfg \in Settings /\ todo[t] \in Seq(Ops) /\ r \in Int /\ todo[t] # <<>>
      /\ todo'[t] = Tail(todo[t])
  BY Stands DEF TypeInv, Advance, Roles
<1>2. p \in Nat /\ OpAt(p + 1, op) /\ Remains(todo[t], r)
  BY <1>1, Stands DEF ScriptInv, ScriptOf
<1>3. Remains(Tail(todo[t]), r) /\ Len(Tail(todo[t])) = Len(todo[t]) - 1 /\ Len(todo[t]) \in Int
  BY <1>1, <1>2, Tails, LenProperties
<1>4. Total(r) \in Int
  BY <1>1, Whole
<1>5. Pos(t)' = p + 1
  BY <1>1, <1>3, <1>4, SameScript DEF Pos
<1>6. /\ Running(t) /\ s[t] >= 0 /\ Running(t)' /\ InIteration(t)' /\ ~InSetRole(t)' /\ ~InSetRole(t)
      /\ Now(t)' = Now(t) /\ Begun(t)' = Now(t) /\ Begun(t) = Now(t)
  <2>1. /\ Running(t) /\ s[t] >= 0 /\ Running(t)' /\ InIteration(t)'
        /\ nrun[t] < nruns /\ nrun[t] \in Int /\ s[t] \in Int /\ nruns \in Int
    BY Parameters DEF InIteration, Running, TypeInv
  <2>2. ~InSetRole(t)' /\ ~InSetRole(t)
    BY <2>1 DEF InSetRole
  <2>3. Now(t)' = Now(t)
    BY DEF Now
  <2>4. Begun(t)' = Now(t) /\ Begun(t) = Now(t)
    BY <2>1, <2>3 DEF Begun
  <2> QED
    BY <2>1, <2>2, <2>3, <2>4
<1>7. Remains(todo[t], myrole[t])'
  <2>1. Remains(todo'[t], myrole'[t])
    BY <1>1, <1>3
  <2> QED
    BY <2>1, SameScript
<1>8. Passed(p + 1) = Passed(p) + One(op = "sync") /\ Passed(p) \in 0 .. Syncs /\ Passed(p + 1) \in 0 .. Syncs
      /\ Syncs \in Nat
  <2>1. cfg \in Settings /\ p \in Nat /\ OpAt(p + 1, op)
    BY <1>1, <1>2
  <2> HIDE DEF p, op
  <2>2. \A x \in Nat : /\ Syncs \in Nat /\ Passed(x) \in 0 .. Syncs
                       /\ \A w : OpAt(x + 1, w) => Passed(x + 1) = Passed(x) + One(w = "sync")
    BY <2>1, Barriers
  <2>3. p + 1 \in Nat
    BY <2>1
  <2> QED
    BY <2>1, <2>2, <2>3
<1>9. At(t, "sync") <=> op = "sync"
  BY <1>1 DEF At
<1>10. Rem(t) = Syncs - Passed(p) /\ Rem(t)' = Syncs - Passed(p + 1)
  <2>1. Rem(t) = Syncs - Passed(Pos(t))
    BY <1>1, <1>6 DEF Rem
  <2>2. Rem(t)' = Syncs' - Passed(Pos(t))'
    BY <1>6 DEF Rem
  <2>3. G' = G /\ C' = C /\ F' = F /\ Syncs' = Syncs
    BY SameScript
  <2>4. Passed(Pos(t))' = Passed(p + 1)
    BY <1>5, <2>3 DEF Passed
  <2> QED
    BY <2>1, <2>2, <2>3, <2>4
<1> HIDE DEF p, op
<1>11. One(op = "sync") = One(At(t, "sync")) /\ One(op = "sync") \in {0, 1}
  BY <1>9 DEF One
<1>12. Rem(t)' = Rem(t) - One(At(t, "sync")) /\ Rem(t) \in 0 .. Syncs /\ Rem(t)' \in 0 .. Syncs
  BY <1>8, <1>10, <1>11
<1>13. /\ Starts(t)' = Starts(t) /\ GRem(t)' = GRem(t) /\ GBehind(t)' = GBehind(t)
       /\ Held(t)' = Held(t)
  <2>1. Starts(t)' = Starts(t) /\ GRem(t)' = 0 /\ GRem(t) = 0
    BY <1>6, SameScript DEF Starts, GRem
  <2> QED
    BY <1>6, <2>1 DEF GBehind, Held
<1>14. ASSUME NEW w \in Steps, w = "final" => cfg.finals
       PROVE  Latest(t, w)' = IF At(t, w) THEN Now(t) ELSE Latest(t, w)
  <2>1. (op = w <=> p = Where(w)) /\ Where(w) \in Nat
    BY <1>1, <1>2, <1>14, Places, WhereFacts
  <2>2. Latest(t, w)' = Now(t) - One(p + 1 <= Where(w))
    BY <1>5, <1>6, SameScript DEF Latest
  <2>3. Latest(t, w) = Now(t) - One(p <= Where(w))
    BY <1>6 DEF Latest, p
  <2>4. At(t, w) <=> op = w
    BY <1>1 DEF At, op
  <2>5. Now(t) \in Int
    BY Nows
  <2> QED
    BY <1>2, <2>1, <2>2, <2>3, <2>4, <2>5 DEF One
<1> QED
  BY <1>5, <1>6, <1>7, <1>12, <1>13, <1>14 DEF p

\* One more operation of set_role and its two barriers.
LEMMA AdvanceSetRole ==
  ASSUME TypeInv, ScriptInv, NEW t \in Tids, Advance(t), InSetRole(t),
         cfg' = cfg, nrun'[t] = nrun[t], s'[t] = s[t]
  PROVE  /\ todo'[t] \in {<<"set_role", "gsync">>, <<"gsync">>, <<>>}
         /\ Running(t)' /\ s'[t] = -1 /\ ~InIteration(t) /\ ~InIteration(t)'
         /\ Begun(t)' = Begun(t) /\ Rem(t)' = 0 /\ Rem(t) = 0
         /\ Starts(t)' = Starts(t)
         /\ At(t, "gsync") => GRem(t)' = GRem(t) - 1 /\ Held(t)' = Held(t)
         /\ At(t, "set_role") => GRem(t)' = GRem(t) /\ Held(t)' = Starts(t)
         /\ At(t, "gsync") \/ At(t, "set_role")
<1>1. Running(t) /\ s[t] = -1 /\ todo[t] # <<>> /\ todo'[t] = Tail(todo[t]) /\ nrun[t] < nruns
  BY DEF InSetRole, Advance, TypeInv, Running
<1>2. todo[t] \in {SetRole, <<"set_role", "gsync">>, <<"gsync">>}
  BY <1>1 DEF ScriptInv, ScriptOf
<1>3. Running(t)' /\ s'[t] = -1 /\ ~InIteration(t) /\ ~InIteration(t)'
  BY <1>1 DEF Running, InIteration
<1>4. Begun(t)' = Begun(t) /\ Rem(t)' = 0 /\ Rem(t) = 0 /\ Starts(t)' = Starts(t)
  BY <1>3, SameScript DEF Begun, Rem, Starts, Now
<1>5. Starts(t) \in Int /\ GRem(t) \in Int
  BY GlobalPlace
<1>6. InSetRole(t)' <=> todo'[t] # <<>>
  BY <1>1, <1>3 DEF InSetRole
<1>7. CASE todo[t] = SetRole
  <2>1. todo'[t] = <<"set_role", "gsync">> /\ At(t, "gsync") /\ ~At(t, "set_role")
    BY <1>1, <1>7, ShortScripts DEF At
  <2>2. GRem(t) = 2 /\ GRem(t)' = 1 /\ Held(t) = Starts(t) - 1 /\ Held(t)' = Starts(t) - 1
    BY <1>4, <1>6, <1>7, <2>1, ShortScripts DEF GRem, Held, One
  <2> QED
    BY <1>3, <1>4, <2>1, <2>2
<1>8. CASE todo[t] = <<"set_role", "gsync">>
  <2>1. todo'[t] = <<"gsync">> /\ At(t, "set_role") /\ ~At(t, "gsync")
    BY <1>1, <1>8, ShortScripts DEF At
  <2>2. GRem(t) = 1 /\ GRem(t)' = 1 /\ Held(t)' = Starts(t)
    BY <1>4, <1>5, <1>6, <1>8, <2>1, ShortScripts DEF GRem, Held, One
  <2> QED
    BY <1>3, <1>4, <2>1, <2>2
<1>9. CASE todo[t] = <<"gsync">>
  <2>1. todo'[t] = <<>> /\ At(t, "gsync") /\ ~At(t, "set_role")
    BY <1>1, <1>9, ShortScripts DEF At
  <2>2. GRem(t) = 1 /\ GRem(t)' = 0 /\ Held(t) = Starts(t) /\ Held(t)' = Starts(t)
    BY <1>4, <1>5, <1>6, <1>9, <2>1, ShortScripts DEF GRem, Held, One
  <2> QED
    BY <1>3, <1>4, <2>1, <2>2
<1> QED
  BY <1>2, <1>7, <1>8, <1>9

\* A thread at the end of its script has nothing left of the iteration.
LEMMA AtEnd ==
  ASSUME TypeInv, ScriptInv, NEW t \in Tids, todo[t] = <<>>, nrun[t] < nruns
  PROVE  /\ Rem(t) = 0 /\ GRem(t) = 0 /\ Held(t) = Starts(t) /\ ~spin[t] /\ (\A op : ~At(t, op))
         /\ Begun(t) = Now(t)
         /\ \A w \in Steps :
              ctx[t] >= 0 /\ (w = "final" => cfg.finals) /\ (w \in Kinds \/ (w = "hash_add" /\ myrole[t] = 0))
              => Latest(t, w) = Begun(t)
<1>1. cfg \in Settings /\ nrun[t] \in Int /\ nruns \in Int
  BY Nows, Parameters DEF TypeInv
<1>2. GRem(t) = 0 /\ Held(t) = Starts(t) /\ ~spin[t] /\ (\A op : ~At(t, op)) /\ Begun(t) = Now(t)
  <2>1. ~InSetRole(t) /\ ~spin[t] /\ (\A op : ~At(t, op))
    BY Stands DEF InSetRole, At
  <2>2. Begun(t) = Now(t)
    BY <1>1 DEF Begun
  <2>3. GRem(t) = 0
    BY <2>1 DEF GRem
  <2> QED
    BY <2>1, <2>2, <2>3, GlobalPlace
<1>3. ASSUME InIteration(t)
      PROVE  /\ Pos(t) \in Nat /\ Pos(t) = Total(myrole[t]) /\ Pos(t) >= Common /\ Common \in Int
             /\ myrole[t] = 0 => Pos(t) = Common + 2
  <2>1. myrole[t] \in Int /\ Pos(t) = Total(myrole[t])
    BY <1>3, Stands DEF Roles
  <2> QED
    BY <1>1, <2>1, Whole
<1>4. Rem(t) = 0
  <2>1. CASE InIteration(t)
    <3>1. Passed(Pos(t)) = Syncs /\ Syncs \in Int
      BY <1>1, <1>3, <2>1, Barriers
    <3> QED
      BY <2>1, <3>1 DEF Rem
  <2> QED
    BY <2>1 DEF Rem
<1>5. ASSUME NEW w \in Steps, w = "final" => cfg.finals, ctx[t] >= 0,
             w \in Kinds \/ (w = "hash_add" /\ myrole[t] = 0)
      PROVE  Latest(t, w) = Begun(t)
  <2>1. ~(InIteration(t) /\ Pos(t) <= Where(w))
    <3> SUFFICES ASSUME InIteration(t) PROVE ~(Pos(t) <= Where(w))
      OBVIOUS
    <3>1. /\ Where(w) \in Nat
          /\ w \in Kinds => Where(w) < Common
          /\ w = "hash_add" => Where(w) = Common + 1
      BY <1>1, <1>5, WhereFacts
    <3> QED
      BY <1>3, <1>5, <3>1
  <2> QED
    BY <2>1, Nows DEF Latest, One
<1> QED
  BY <1>2, <1>4, <1>5

LEMMA LoopStep ==
  ASSUME TypeInv, ScriptInv, NEW t \in Tids, Loop(t)
  PROVE  /\ ~spin[t] /\ (\A op : ~At(t, op)) /\ todo[t] = <<>> /\ nrun[t] < nruns
         /\ GBehind(t)' = GBehind(t) /\ Held(t)' = Held(t)
         /\ ctx[t] >= 0 => Behind(t)' = Behind(t)
         /\ \A w \in Steps :
              ctx[t] >= 0 /\ (w = "final" => cfg.finals) /\ (w \in Kinds \/ (w = "hash_add" /\ myrole[t] = 0))
              => Latest(t, w)' = Latest(t, w)
         /\ InIteration(t)' => Pos(t)' = 0
<1>1. /\ cfg \in Settings /\ nrun[t] \in -1 .. nruns /\ nrun[t] \in Int /\ nruns \in Int /\ size \in Nat /\ size > 0
      /\ s[t] \in -1 .. size - 1 /\ s[t] \in Int /\ ctx[t] \in -1 .. NEXE - 1 /\ myrole[t] \in Int
      /\ nrun \in [Tids -> -1 .. nruns] /\ s \in [Tids -> -1 .. size - 1] /\ todo \in [Tids -> Seq(Ops)]
  <2>1. /\ cfg \in Settings /\ nrun[t] \in -1 .. nruns /\ s[t] \in -1 .. size - 1 /\ ctx[t] \in -1 .. NEXE - 1
        /\ myrole[t] \in -1 .. N - 1
        /\ nrun \in [Tids -> -1 .. nruns] /\ s \in [Tids -> -1 .. size - 1] /\ todo \in [Tids -> Seq(Ops)]
    BY DEF TypeInv
  <2>2. myrole[t] \in Int /\ nruns \in Nat /\ size \in Nat /\ size > 0
    BY <2>1, Parameters
  <2> QED
    BY <2>1, <2>2, Nows
<1>2. /\ todo[t] = <<>> /\ nrun[t] < nruns /\ cfg' = cfg /\ draws' = draws /\ myrole' = myrole /\ ctx' = ctx
  BY DEF Loop, shared
<1>3. /\ Rem(t) = 0 /\ GRem(t) = 0 /\ Held(t) = Starts(t) /\ ~spin[t] /\ (\A op : ~At(t, op))
      /\ Begun(t) = Now(t)
      /\ \A w \in Steps :
           ctx[t] >= 0 /\ (w = "final" => cfg.finals) /\ (w \in Kinds \/ (w = "hash_add" /\ myrole[t] = 0))
           => Latest(t, w) = Begun(t)
  BY <1>2, AtEnd
<1>4. /\ nrun[t] = -1 => s[t] = 0 /\ ctx[t] = -1 /\ myrole[t] = -1
      /\ ctx[t] >= 0 <=> myrole[t] >= 0
      /\ nrun[t] >= 0 => Running(t)
  BY <1>1, <1>2 DEF ScriptInv, ScriptOf, Running
<1>5. Syncs \in Int /\ Syncs' = Syncs /\ Fixed' = Fixed /\ Total(myrole[t]) \in Nat
      /\ Passed(0) = 0 /\ Passed(0)' = 0
      /\ Iteration(myrole[t]) # <<>>
      /\ Len(Iteration(myrole[t])) = Total(myrole[t])
  <2>1. /\ Syncs \in Int /\ Passed(0) = 0
    BY <1>1, Barriers
  <2>2. Total(myrole[t]) \in Nat /\ Len(Iteration(myrole[t])) = Total(myrole[t]) /\ Total(myrole[t]) > 0
    <3>1. cfg \in Settings /\ myrole[t] \in Int
      BY <1>1
    <3>2. /\ Len(Iteration(myrole[t])) = Total(myrole[t])
          /\ Total(myrole[t]) \in Nat /\ Total(myrole[t]) >= Common /\ Common \in Nat /\ Common >= 10
      BY <3>1, Whole
    <3> QED
      BY <3>2
  <2> QED
    BY <1>2, <2>1, <2>2, SameScript
\* The thread begins an iteration.
<1>6. ASSUME nrun'[t] \in 0 .. nruns - 1, s'[t] >= 0, s'[t] \in Int, todo'[t] = Iteration(myrole[t]), nrun'[t] \in Int,
             nrun'[t] * size + s'[t] = Now(t), nrun[t] >= 0,
             nrun'[t] = nrun[t] \/ Fixed
      PROVE  /\ GBehind(t)' = GBehind(t) /\ Held(t)' = Held(t)
             /\ Behind(t)' = Behind(t)
             /\ \A w \in Steps :
                  ctx[t] >= 0 /\ (w = "final" => cfg.finals) /\ (w \in Kinds \/ (w = "hash_add" /\ myrole[t] = 0))
                  => Latest(t, w)' = Latest(t, w)
             /\ Pos(t)' = 0
  <2>1. InIteration(t)' /\ ~InSetRole(t)' /\ Pos(t)' = 0
    <3>1. InIteration(t)' /\ ~InSetRole(t)'
      BY <1>1, <1>6 DEF InIteration, InSetRole, Running
    <3>2. Pos(t)' = Total(myrole[t]) - Len(todo'[t])
      BY <1>2, SameScript DEF Pos
    <3> QED
      BY <1>5, <1>6, <3>1, <3>2
  <2>2. Begun(t)' = Begun(t) + 1 /\ Begun(t) \in Int
    <3>1. Begun(t)' = nrun'[t] * size + s'[t] + 1
      BY <1>1, <1>6 DEF Begun, Now
    <3>2. Now(t) \in Int
      BY Nows
    <3> HIDE DEF Now
    <3> QED
      BY <1>3, <1>6, <3>1, <3>2
  <2>3. Rem(t)' = Syncs
    BY <1>2, <1>5, <2>1, SameScript DEF Rem
  <2>4. Behind(t)' = Behind(t)
    <3>1. Behind(t)' = Syncs * (Begun(t) + 1) - Syncs
      BY <1>5, <2>2, <2>3 DEF Behind
    <3>2. Behind(t) = Syncs * Begun(t) - 0
      BY <1>3 DEF Behind
    <3>3. Syncs * (Begun(t) + 1) = Syncs * Begun(t) + Syncs /\ Syncs * Begun(t) \in Int
      BY <1>5, <2>2
    <3> QED
      BY <1>5, <3>1, <3>2, <3>3
  <2>5. ASSUME NEW w \in Steps, ctx[t] >= 0, w = "final" => cfg.finals,
               w \in Kinds \/ (w = "hash_add" /\ myrole[t] = 0)
        PROVE  Latest(t, w)' = Latest(t, w)
    <3>1. Where(w) \in Nat
      BY <1>1, <2>5, WhereFacts
    <3>2. Latest(t, w)' = Begun(t)' - 1
      BY <1>2, <2>1, <3>1, SameScript DEF Latest, One
    <3> QED
      BY <1>3, <2>2, <2>5, <3>2
  <2>6. Starts(t)' = Starts(t) /\ GRem(t)' = 0
    <3>1. nrun'[t] # -1 /\ ~(nrun'[t] >= nruns) /\ nrun[t] # -1 /\ ~(nrun[t] >= nruns)
      BY <1>1, <1>2, <1>6
    <3> QED
      BY <1>5, <1>6, <2>1, <3>1 DEF Starts, GRem
  <2>7. GBehind(t)' = GBehind(t) /\ Held(t)' = Held(t)
    <3>1. Held(t)' = Starts(t)' - 0 /\ Starts(t) \in Int
      BY <2>1, GlobalPlace DEF Held, One
    <3> QED
      BY <1>3, <2>6, <3>1 DEF GBehind
  <2> QED
    BY <2>1, <2>4, <2>5, <2>7
\* The loop of choose_params goes on.
<1>7. CASE nrun[t] >= 0 /\ myrole[t] >= 0 /\ s[t] + 1 < size
  <2>1. s' = [s EXCEPT ![t] = @ + 1] /\ todo' = [todo EXCEPT ![t] = Iteration(myrole[t])] /\ nrun' = nrun
    BY <1>7 DEF Loop
  <2>2. s'[t] = s[t] + 1 /\ todo'[t] = Iteration(myrole[t]) /\ nrun'[t] = nrun[t]
    BY <1>1, <2>1
  <2>3. nrun[t] * size + (s[t] + 1) = Now(t)
    <3>1. nrun[t] * size \in Int
      BY <1>1
    <3> QED
      BY <1>1, <3>1 DEF Now
  <2> QED
    BY <1>1, <1>2, <1>3, <1>6, <1>7, <2>2, <2>3
\* A run is over.
<1>8. CASE ~(nrun[t] >= 0 /\ myrole[t] >= 0 /\ s[t] + 1 < size)
  <2>1. nrun' = [nrun EXCEPT ![t] = @ + 1] /\ nrun'[t] = nrun[t] + 1
    BY <1>1, <1>8 DEF Loop
  <2>2. nrun[t] >= 0 /\ myrole[t] >= 0 => s[t] = size - 1
    BY <1>1, <1>8
  <2>3. ctx[t] >= 0 => nrun[t] >= 0 /\ Now(t) = (nrun[t] + 1) * size /\ Begun(t) = (nrun[t] + 1) * size
    <3> SUFFICES ASSUME ctx[t] >= 0 PROVE nrun[t] >= 0 /\ Now(t) = (nrun[t] + 1) * size
      BY <1>3
    <3>1. nrun[t] >= 0 /\ s[t] = size - 1
      BY <1>1, <1>4, <2>2
    <3>2. Now(t) = nrun[t] * size + size
      <4>1. nrun[t] * size \in Int
        BY <1>1
      <4> QED
        BY <1>1, <3>1, <4>1 DEF Now
    <3>3. (nrun[t] + 1) * size = nrun[t] * size + size
      BY <1>1
    <3> QED
      BY <3>1, <3>2, <3>3
  \* Where the thread does not begin an iteration: nothing is left to do in the instance.
  <2>4. ASSUME ~InIteration(t)', ctx[t] >= 0 => Begun(t)' = (nrun[t] + 1) * size
        PROVE  /\ ctx[t] >= 0 => Behind(t)' = Behind(t)
               /\ \A w \in Steps :
                    ctx[t] >= 0 /\ (w = "final" => cfg.finals) /\ (w \in Kinds \/ (w = "hash_add" /\ myrole[t] = 0))
                    => Latest(t, w)' = Latest(t, w)
    <3>1. Rem(t)' = 0
      BY <2>4 DEF Rem
    <3>2. ctx[t] >= 0 => Begun(t)' = Begun(t)
      BY <2>3, <2>4
    <3>3. ctx[t] >= 0 => Behind(t)' = Behind(t)
      BY <1>3, <1>5, <3>1, <3>2 DEF Behind
    <3>4. ASSUME NEW w \in Steps PROVE Latest(t, w)' = Begun(t)' - 0
      BY <2>4 DEF Latest, One
    <3>5. Begun(t) \in Int
      BY Nows
    <3> QED
      BY <1>3, <3>2, <3>3, <3>4, <3>5
  <2>5. CASE nrun[t] + 1 = nruns
    <3>1. UNCHANGED <<s, todo>>
      BY <1>8, <2>5 DEF Loop
    <3>2. ~Running(t)' /\ nrun'[t] >= nruns
      BY <1>1, <2>1, <2>5 DEF Running
    <3>3. ~InIteration(t)' /\ ~InSetRole(t)'
      BY <3>2 DEF InIteration, InSetRole
    <3>4. ctx[t] >= 0 => Begun(t)' = (nrun[t] + 1) * size
      BY <2>5, <3>2 DEF Begun
    <3>5. GRem(t)' = 0 /\ Held(t)' = Starts(t)' - 0
      BY <3>3 DEF GRem, Held, One
    <3>6. Starts(t)' = Starts(t)
      BY <1>1, <1>2, <1>5, <2>1, <2>5 DEF Starts
    <3>7. Starts(t) \in Int
      BY GlobalPlace
    <3>8. GBehind(t)' = GBehind(t) /\ Held(t)' = Held(t)
      BY <1>3, <3>5, <3>6, <3>7 DEF GBehind
    <3> QED
      BY <1>2, <1>3, <2>4, <3>3, <3>4, <3>8
  <2>6. CASE nrun[t] + 1 # nruns /\ (nrun[t] = -1 \/ ~Fixed)
    <3>1. s' = [s EXCEPT ![t] = -1] /\ todo' = [todo EXCEPT ![t] = SetRole]
      BY <1>8, <2>6 DEF Loop
    <3>2. s'[t] = -1 /\ todo'[t] = SetRole
      BY <1>1, <3>1
    <3>3. nrun'[t] \in 0 .. nruns - 1 /\ Running(t)' /\ ~InIteration(t)' /\ InSetRole(t)'
      BY <1>1, <1>2, <2>1, <2>6, <3>2, ShortScripts DEF Running, InIteration, InSetRole
    <3>4. ctx[t] >= 0 => Begun(t)' = (nrun[t] + 1) * size
      <4>1. Begun(t)' = (nrun[t] + 1) * size + (-1) + 1
        BY <1>1, <2>1, <3>2, <3>3 DEF Begun, Now
      <4>2. (nrun[t] + 1) * size \in Int
        BY <1>1
      <4> QED
        BY <4>1, <4>2
    <3>5. GRem(t)' = 2 /\ Held(t)' = Starts(t)' - 1
      BY <3>2, <3>3, ShortScripts DEF GRem, Held, One
    <3>6. Starts(t)' = Starts(t) + 1
      BY <1>1, <1>2, <1>5, <2>1, <2>6, <3>3 DEF Starts
    <3>7. Starts(t) \in Int
      BY GlobalPlace
    <3>8. GBehind(t)' = GBehind(t) /\ Held(t)' = Held(t)
      BY <1>3, <3>5, <3>6, <3>7 DEF GBehind
    <3> QED
      BY <1>2, <1>3, <2>4, <3>3, <3>4, <3>8
  <2>7. CASE nrun[t] + 1 # nruns /\ ~(nrun[t] = -1 \/ ~Fixed) /\ myrole[t] < 0
    <3>1. UNCHANGED <<s, todo>>
      BY <1>8, <2>7 DEF Loop
    <3>2. ctx[t] = -1 /\ s[t] < 0
      BY <1>1, <1>4, <2>7 DEF ScriptInv, ScriptOf, InIteration
    <3>3. ~InIteration(t)' /\ ~InSetRole(t)'
      BY <1>1, <1>2, <3>1, <3>2 DEF InIteration, InSetRole
    <3>4. GRem(t)' = 0 /\ Held(t)' = Starts(t)' - 0
      BY <3>3 DEF GRem, Held, One
    <3>5. Starts(t)' = Starts(t)
      BY <1>1, <1>2, <1>5, <2>1, <2>7 DEF Starts
    <3>6. Starts(t) \in Int
      BY GlobalPlace
    <3>7. GBehind(t)' = GBehind(t) /\ Held(t)' = Held(t)
      BY <1>3, <3>4, <3>5, <3>6 DEF GBehind
    <3> QED
      BY <1>2, <1>3, <2>4, <3>2, <3>3, <3>7
  <2>8. CASE nrun[t] + 1 # nruns /\ ~(nrun[t] = -1 \/ ~Fixed) /\ myrole[t] >= 0
    <3>1. s' = [s EXCEPT ![t] = 0] /\ todo' = [todo EXCEPT ![t] = Iteration(myrole[t])]
      BY <1>1, <1>8, <2>8 DEF Loop
    <3>2. s'[t] = 0 /\ todo'[t] = Iteration(myrole[t])
      BY <1>1, <3>1
    <3>3. nrun'[t] \in 0 .. nruns - 1
      BY <1>1, <1>2, <2>1, <2>8
    <3>4. (nrun[t] + 1) * size + 0 = Now(t)
      <4>1. ctx[t] >= 0
        BY <1>4, <2>8
      <4>2. (nrun[t] + 1) * size \in Int
        BY <1>1
      <4> QED
        BY <2>3, <4>1, <4>2
    <3> QED
      BY <1>1, <1>2, <1>3, <1>6, <2>1, <2>8, <3>2, <3>3, <3>4
  <2> QED
    BY <1>1, <2>5, <2>6, <2>7, <2>8
<1> QED
  BY <1>7, <1>8

-----------------------------------------------------------------------------
(***************************************************************************)
(* The steps preserve the types and the scripts.                           *)
(***************************************************************************)
LEMMA TailOps == ASSUME NEW q \in Seq(Ops), q # <<>> PROVE Tail(q) \in Seq(Ops)
  BY HeadTailProperties

\* Which barrier a thread is at.
LEMMA BarFacts ==
  ASSUME TypeInv, ScriptInv, NEW t \in Tids
  PROVE  /\ At(t, "sync") => InIteration(t) /\ Bar(t) = ctx[t] /\ Bar(t) \in Insts /\ Bar(t) # GB /\ ~At(t, "gsync")
                             /\ Width(Bar(t)) = N
         /\ At(t, "gsync") => InSetRole(t) /\ Bar(t) = GB /\ Width(Bar(t)) = AVAIL /\ ~At(t, "sync")
         /\ AtBar(t) => Bar(t) \in Bars
         /\ spin[t] => AtBar(t)
<1>1. ~(At(t, "gsync") /\ At(t, "sync"))
  BY DEF At
<1>2. At(t, "gsync") => InSetRole(t)
  BY GlobalPlace
<1>3. At(t, "sync") => InIteration(t)
  <2> SUFFICES ASSUME At(t, "sync") PROVE InIteration(t)
    OBVIOUS
  <2>1. ~InSetRole(t)
    BY <1>1, GlobalPlace DEF At
  <2> QED
    BY <2>1, Stands DEF At
<1>4. At(t, "sync") => ctx[t] \in Insts
  BY <1>3, Stands
<1>5. \A k \in Insts : k # GB
  BY Parameters DEF Insts, GB
<1>6. spin[t] => AtBar(t)
  BY DEF ScriptInv, ScriptOf
<1> QED
  BY <1>1, <1>2, <1>3, <1>4, <1>5, <1>6 DEF Bar, Bars, Width, AtBar

\* The operations of an iteration.
LEMMA Within ==
  ASSUME TypeInv, ScriptInv, NEW t \in Tids, NEW op \in Steps, At(t, op)
  PROVE  InIteration(t) /\ ctx[t] \in Insts /\ myrole[t] \in Roles /\ ~AtBar(t) /\ ~spin[t]
<1>1. todo[t] # <<>> /\ Head(todo[t]) = op
  BY DEF At
<1>2. op \in {"param", "cache", "vars", "out", "final", "tb", "tb0", "log", "hash_add"}
  BY DEF Steps, Kinds
<1>3. ~InSetRole(t)
  BY <1>1, <1>2, GlobalPlace DEF At
<1>4. InIteration(t)
  BY <1>1, <1>2, <1>3, Stands
<1>5. ~AtBar(t)
  BY <1>1, <1>2 DEF AtBar, At
<1> QED
  BY <1>4, <1>5, Stands, BarFacts

\* What an arrival does to the barrier.
LEMMA Arriving ==
  ASSUME TypeInv, ScriptInv, NEW t \in Tids, AtBar(t), Arrive(t), NEW b, b = Bar(t)
  PROVE  /\ b \in Bars /\ ~spin[t]
         /\ barr' \in [Bars -> [c : Int, sense : {0, 1}]]
         /\ \A d \in Bars \ {b} : barr'[d] = barr[d]
         /\ ms' = [ms EXCEPT ![t] = barr[b].sense] /\ ms' \in [Tids -> {0, 1}]
         /\ \/ /\ barr[b].c = 1
               /\ barr'[b].c = Width(b) /\ barr'[b].sense # barr[b].sense
               /\ Advance(t) /\ spin' = spin
            \/ /\ barr[b].c # 1
               /\ barr'[b].c = barr[b].c - 1 /\ barr'[b].sense = barr[b].sense
               /\ todo' = todo /\ spin' = [spin EXCEPT ![t] = TRUE]
<1>1. b \in Bars /\ todo[t] # <<>>
  BY BarFacts DEF AtBar, At
<1>2. barr[b].sense \in {0, 1} /\ barr[b].c \in Int /\ barr[b] \in [c : Int, sense : {0, 1}]
      /\ barr \in [Bars -> [c : Int, sense : {0, 1}]] /\ ms \in [Tids -> {0, 1}]
  BY <1>1 DEF TypeInv
<1>3. Width(b) \in Int
  BY Parameters DEF Width
<1>4. ~spin[t] /\ ms' = [ms EXCEPT ![t] = barr[b].sense]
  BY DEF Arrive
<1>5. CASE barr[b].c = 1
  <2> DEFINE v == [c |-> Width(b), sense |-> 1 - barr[b].sense]
  <2>1. barr[b].c - 1 = 0
    BY <1>5
  <2>2. barr' = [barr EXCEPT ![b] = v] /\ Advance(t) /\ spin' = spin
    BY <1>1, <2>1 DEF Arrive, Advance
  <2>3. v \in [c : Int, sense : {0, 1}] /\ v.c = Width(b) /\ v.sense # barr[b].sense
    BY <1>2, <1>3
  <2> HIDE DEF v
  <2>4. /\ barr' \in [Bars -> [c : Int, sense : {0, 1}]] /\ barr'[b] = v
        /\ \A d \in Bars \ {b} : barr'[d] = barr[d]
    BY <1>1, <1>2, <2>2, <2>3
  <2> QED
    BY <1>1, <1>2, <1>4, <1>5, <2>2, <2>3, <2>4
<1>6. CASE barr[b].c # 1
  <2> DEFINE v == [barr[b] EXCEPT !.c = barr[b].c - 1]
  <2>1. ~(barr[b].c - 1 = 0)
    BY <1>2, <1>6
  <2>2. barr' = [barr EXCEPT ![b] = v] /\ todo' = todo /\ spin' = [spin EXCEPT ![t] = TRUE]
    BY <2>1 DEF Arrive
  <2>3. v \in [c : Int, sense : {0, 1}] /\ v.c = barr[b].c - 1 /\ v.sense = barr[b].sense
    BY <1>2
  <2> HIDE DEF v
  <2>4. /\ barr' \in [Bars -> [c : Int, sense : {0, 1}]] /\ barr'[b] = v
        /\ \A d \in Bars \ {b} : barr'[d] = barr[d]
    BY <1>1, <1>2, <2>2, <2>3
  <2> QED
    BY <1>1, <1>2, <1>4, <1>6, <2>2, <2>3, <2>4
<1> QED
  BY <1>5, <1>6

LEMMA TypeArrive ==
  ASSUME TypeInv, ScriptInv, NEW t \in Tids, barrier_wait(t)
  PROVE  TypeInv'
<1>1. AtBar(t) /\ Bar(t) \in Bars /\ todo[t] # <<>>
  BY BarFacts DEF barrier_wait, AtBar, At
<1>4. barr' \in [Bars -> [c : Int, sense : {0, 1}]] /\ ms' \in [Tids -> {0, 1}]
  <2>1. CASE Arrive(t)
    BY <1>1, <2>1, Arriving
  <2>2. CASE Release(t)
    BY <2>2 DEF Release, TypeInv
  <2> QED
    BY <2>1, <2>2 DEF barrier_wait
<1>5. todo' \in [Tids -> Seq(Ops)] /\ spin' \in [Tids -> BOOLEAN]
  <2>1. \/ todo' = [todo EXCEPT ![t] = Tail(@)]
        \/ todo' = todo
    BY DEF barrier_wait, Arrive, Release
  <2>2. spin' = [spin EXCEPT ![t] = TRUE] \/ spin' = [spin EXCEPT ![t] = FALSE] \/ spin' = spin
    BY DEF barrier_wait, Arrive, Release
  <2>3. todo[t] \in Seq(Ops)
    BY DEF TypeInv
  <2>4. todo' \in [Tids -> Seq(Ops)]
    BY <1>1, <2>1, <2>3, TailOps DEF TypeInv
  <2>5. spin' \in [Tids -> BOOLEAN]
    BY <2>2 DEF TypeInv
  <2> QED
    BY <2>4, <2>5
<1> QED
  BY <1>4, <1>5 DEF barrier_wait, TypeInv, shared

LEMMA TypeLoop ==
  ASSUME TypeInv, ScriptInv, NEW t \in Tids, Loop(t)
  PROVE  TypeInv'
<1>1. /\ nrun[t] \in -1 .. nruns /\ s[t] \in -1 .. size - 1 /\ nrun[t] < nruns /\ nruns \in Nat /\ size \in Nat /\ size > 0
      /\ cfg \in Settings /\ myrole[t] \in -1 .. N - 1 /\ N \in Nat
  BY Parameters DEF TypeInv, Loop
<1>2. Iteration(myrole[t]) \in Seq(Ops)
  <2>1. myrole[t] \in Int
    BY <1>1
  <2> QED
    BY <1>1, <2>1, Scripts
<1>3. SetRole \in Seq(Ops)
  BY DEF SetRole, Ops
<1>4. nrun' = nrun \/ nrun' = [nrun EXCEPT ![t] = nrun[t] + 1]
  BY DEF Loop
<1>5. \/ s' = s
      \/ s' = [s EXCEPT ![t] = s[t] + 1] /\ s[t] + 1 < size
      \/ s' = [s EXCEPT ![t] = -1]
      \/ s' = [s EXCEPT ![t] = 0]
  BY DEF Loop
<1>6. \/ todo' = todo
      \/ todo' = [todo EXCEPT ![t] = Iteration(myrole[t])]
      \/ todo' = [todo EXCEPT ![t] = SetRole]
  BY DEF Loop
<1>7. nrun' \in [Tids -> -1 .. nruns]
  <2>1. nrun[t] + 1 \in -1 .. nruns
    BY <1>1
  <2> QED
    BY <1>4, <2>1 DEF TypeInv
<1>8. s' \in [Tids -> -1 .. size - 1]
  <2>1. (s[t] + 1 < size => s[t] + 1 \in -1 .. size - 1) /\ -1 \in -1 .. size - 1 /\ 0 \in -1 .. size - 1
    BY <1>1
  <2> QED
    BY <1>5, <2>1 DEF TypeInv
<1>9. todo' \in [Tids -> Seq(Ops)]
  BY <1>2, <1>3, <1>6 DEF TypeInv
<1> QED
  BY <1>7, <1>8, <1>9 DEF Loop, TypeInv, shared

LEMMA StepType == TypeInv /\ ScriptInv /\ [Next]_vars => TypeInv'
<1> SUFFICES ASSUME TypeInv, ScriptInv, [Next]_vars PROVE TypeInv'
  OBVIOUS
<1>0. ASSUME NEW t \in Tids, NEW op, Op(t, op) PROVE todo' \in [Tids -> Seq(Ops)] /\ At(t, op)
  <2>1. todo[t] \in Seq(Ops) /\ todo[t] # <<>> /\ todo' = [todo EXCEPT ![t] = Tail(todo[t])] /\ At(t, op)
    BY <1>0 DEF Op, At, TypeInv
  <2>2. Tail(todo[t]) \in Seq(Ops)
    BY <2>1, TailOps
  <2> QED
    BY <2>1, <2>2 DEF TypeInv
<1>1. ASSUME NEW t \in Tids, init_global(t) PROVE TypeInv'
  <2>1. \E op : Op(t, op)
    BY <1>1 DEF init_global
  <2>2. todo' \in [Tids -> Seq(Ops)]
    BY <1>0, <2>1
  <2>3. \A b \in Bars : Width(b) \in Int
    BY Parameters DEF Width
  <2>4. go' \in {0, 1} /\ barr' \in [Bars -> [c : Int, sense : {0, 1}]]
    <3>1. \/ barr' = [b \in Bars |-> [c |-> Width(b), sense |-> 0]] /\ go' = go
          \/ go' = 1 /\ barr' = barr
          \/ go' = go /\ barr' = barr
      BY <1>1 DEF init_global
    <3>2. [b \in Bars |-> [c |-> Width(b), sense |-> 0]] \in [Bars -> [c : Int, sense : {0, 1}]]
      BY <2>3
    <3> QED
      BY <3>1, <3>2 DEF TypeInv
  <2> QED
    BY <1>1, <2>2, <2>4 DEF init_global, TypeInv
<1>2. ASSUME NEW t \in Tids, set_role(t) PROVE TypeInv'
  <2>1. todo' \in [Tids -> Seq(Ops)] /\ At(t, "set_role")
    BY <1>0, <1>2 DEF set_role
  <2>2. InSetRole(t)
    BY <2>1, GlobalPlace
  <2>3. Part(t) \in Parts
    <3>1. nrun[t] \in 0 .. nruns - 1
      BY <2>2, GlobalPlace
    <3>2. cfg.part \in Parts \cup {-1}
      BY Flags DEF TypeInv
    <3> QED
      BY <3>1, <3>2 DEF Part, Fixed, Parts, TypeInv
  <2>4. inst[Part(t)][t] \in -1 .. NEXE - 1 /\ role[Part(t)][t] \in -1 .. N - 1
    BY <2>3, TopologyAssumption
  <2>5. -1 \in -1 .. NEXE - 1 /\ -1 \in -1 .. N - 1
    BY Parameters
  <2>6. ctx' \in [Tids -> -1 .. NEXE - 1] /\ myrole' \in [Tids -> -1 .. N - 1]
    BY <1>2, <2>4, <2>5 DEF set_role, TypeInv
  <2> QED
    BY <1>2, <2>1, <2>6 DEF set_role, TypeInv, shared
<1>3. ASSUME NEW t \in Tids, Write(t) PROVE TypeInv'
  <2> PICK what \in Kinds : Op(t, what) /\ data' = [data EXCEPT ![ctx[t]][what][myrole[t]] = Now(t)]
    BY <1>3 DEF Write
  <2>1. todo' \in [Tids -> Seq(Ops)] /\ At(t, what) /\ what \in Steps
    BY <1>0 DEF Steps
  <2>2. ctx[t] \in Insts /\ myrole[t] \in Roles /\ Now(t) \in Int
    BY <2>1, Within, Nows
  <2>3. data' \in [Insts -> [Kinds -> [Roles -> Int]]]
    BY <2>2 DEF TypeInv
  <2> QED
    BY <1>3, <2>1, <2>3 DEF Write, TypeInv, shared
<1>4. ASSUME NEW t \in Tids, Timebase(t) PROVE TypeInv'
  <2>1. PICK op \in {"tb", "tb0"} : Op(t, op)
    BY <1>4 DEF Timebase
  <2>2. todo' \in [Tids -> Seq(Ops)] /\ At(t, op) /\ op \in Steps
    BY <1>0, <2>1 DEF Steps
  <2>3. ctx[t] \in Insts /\ myrole[t] \in Int /\ Now(t) \in Int
    <3>1. ctx[t] \in Insts /\ myrole[t] \in Roles /\ Now(t) \in Int
      BY <2>2, Within, Nows
    <3> QED
      BY <3>1 DEF Roles
  <2>4. next_tb' \in [Insts -> Int \X Int] /\ tb0' \in [Tids -> Int \X Int]
    <3>1. \/ tb0' = tb0 /\ next_tb' = [next_tb EXCEPT ![ctx[t]] = <<myrole[t], Now(t)>>]
          \/ next_tb' = next_tb /\ tb0' = [tb0 EXCEPT ![t] = next_tb[ctx[t]]]
      BY <1>4 DEF Timebase
    <3>2. <<myrole[t], Now(t)>> \in Int \X Int
      BY <2>3
    <3>3. next_tb[ctx[t]] \in Int \X Int
      BY <2>3 DEF TypeInv
    <3> QED
      BY <2>3, <3>1, <3>2, <3>3 DEF TypeInv
  <2> QED
    BY <1>4, <2>2, <2>4 DEF Timebase, TypeInv, shared
<1>5. ASSUME NEW t \in Tids, Record(t) PROVE TypeInv'
  <2>1. PICK op \in {"log", "hash_add"} : Op(t, op)
    BY <1>5 DEF Record
  <2>2. todo' \in [Tids -> Seq(Ops)] /\ At(t, op) /\ op \in Steps
    BY <1>0, <2>1 DEF Steps
  <2>3. ctx[t] \in Insts
    BY <2>2, Within
  <2>4. count' \in [Insts -> Int]
    BY <1>5, <2>3 DEF Record, TypeInv
  <2> QED
    BY <1>5, <2>2, <2>4 DEF Record, TypeInv, shared
<1>6. CASE UNCHANGED vars
  BY <1>6 DEF TypeInv, vars, shared
<1> QED
  BY <1>1, <1>2, <1>3, <1>4, <1>5, <1>6, TypeArrive, TypeLoop DEF Next, zyva, Finished

LEMMA ScriptElsewhere ==
  ASSUME NEW u \in Tids, ScriptOf(u), cfg' = cfg, nrun'[u] = nrun[u], s'[u] = s[u],
         todo'[u] = todo[u], myrole'[u] = myrole[u], ctx'[u] = ctx[u], spin'[u] = spin[u],
         go' = go \/ (go' = 1 /\ u # 0)
  PROVE  ScriptOf(u)'
<1>1. /\ (InIteration(u)' <=> InIteration(u)) /\ (Running(u)' <=> Running(u))
      /\ (AtBar(u)' <=> AtBar(u))
  BY Elsewhere DEF AtBar
<1>2. Fixed' = Fixed /\ (Remains(todo[u], myrole[u])' <=> Remains(todo[u], myrole[u]))
  <2>1. Remains(todo'[u], myrole'[u]) <=> Remains(todo[u], myrole[u])
    OBVIOUS
  <2> QED
    BY <2>1, SameScript
<1> QED
  BY <1>1, <1>2 DEF ScriptOf, SetRole

LEMMA ScriptAdvance ==
  ASSUME TypeInv, ScriptInv, NEW t \in Tids, Advance(t), ~(nrun[t] = -1),
         cfg' = cfg, go' = go, nrun'[t] = nrun[t], s'[t] = s[t], ~spin'[t],
         \/ myrole'[t] = myrole[t] /\ ctx'[t] = ctx[t]
         \/ At(t, "set_role") /\ (ctx'[t] >= 0 <=> myrole'[t] >= 0)
  PROVE  ScriptOf(t)'
<1>1. /\ nrun[t] \in Int /\ nrun[t] >= 0 /\ go = 1
  <2>1. nrun[t] \in -1 .. nruns /\ nruns \in Nat
    BY Parameters DEF TypeInv
  <2>2. nrun[t] >= 0
    BY <2>1
  <2>3. go = 1
    BY <2>2 DEF ScriptInv, ScriptOf
  <2> QED
    BY <2>1, <2>2, <2>3
<1>2. ctx'[t] >= 0 <=> myrole'[t] >= 0
  BY DEF ScriptInv, ScriptOf
<1>3. todo[t] # <<>>
  BY DEF Advance
<1>4. CASE InIteration(t)
  <2>1. ~At(t, "set_role")
    BY <1>4, GlobalPlace
  <2>2. /\ InIteration(t)' /\ Remains(todo[t], myrole[t])' /\ myrole[t] \in Roles
    BY <1>4, <2>1, AdvanceIteration, Stands
  <2>3. myrole'[t] >= 0
    BY <2>1, <2>2 DEF Roles
  <2>4. Running(t)' /\ s'[t] >= 0 /\ nrun'[t] < nruns
    BY <2>2 DEF InIteration, Running
  <2> QED
    BY <1>1, <1>2, <2>2, <2>3, <2>4, Nows, Parameters DEF ScriptOf
<1>5. CASE InSetRole(t)
  <2>1. /\ todo'[t] \in {<<"set_role", "gsync">>, <<"gsync">>, <<>>}
        /\ Running(t)' /\ s'[t] = -1 /\ ~InIteration(t)'
    BY <1>5, AdvanceSetRole
  <2>2. (Fixed => nrun[t] = 0) /\ Fixed' = Fixed
    BY <1>5, GlobalPlace, SameScript
  <2>3. nrun'[t] < nruns
    BY <2>1 DEF Running
  <2> QED
    BY <1>1, <1>2, <2>1, <2>2, <2>3, Nows, Parameters DEF ScriptOf
<1> QED
  BY <1>1, <1>3, <1>4, <1>5, Stands

LEMMA ScriptLoop ==
  ASSUME TypeInv, ScriptInv, NEW t \in Tids, Loop(t)
  PROVE  ScriptOf(t)'
<1>1. /\ nrun[t] \in -1 .. nruns /\ nrun[t] < nruns /\ nruns \in Nat /\ s[t] \in -1 .. size - 1 /\ size \in Nat
      /\ nrun[t] \in Int /\ s[t] \in Int /\ nrun \in [Tids -> -1 .. nruns] /\ s \in [Tids -> -1 .. size - 1]
      /\ todo \in [Tids -> Seq(Ops)] /\ size > 0
      /\ cfg \in Settings /\ myrole[t] \in -1 .. N - 1 /\ myrole[t] \in Int
  <2>1. /\ nrun[t] \in -1 .. nruns /\ nrun[t] < nruns /\ s[t] \in -1 .. size - 1
        /\ nrun \in [Tids -> -1 .. nruns] /\ s \in [Tids -> -1 .. size - 1]
        /\ todo \in [Tids -> Seq(Ops)] /\ cfg \in Settings /\ myrole[t] \in -1 .. N - 1
    BY DEF TypeInv, Loop
  <2> QED
    BY <2>1, Parameters, Nows
<1>2. /\ todo[t] = <<>> /\ cfg' = cfg /\ go' = go /\ myrole' = myrole /\ ctx' = ctx /\ spin' = spin /\ ~spin[t]
  BY LoopStep DEF Loop, shared
<1>3. /\ ctx'[t] >= 0 <=> myrole'[t] >= 0
      /\ go' = 1
      /\ nrun[t] = -1 => s[t] = 0 /\ myrole[t] = -1
      /\ nrun[t] >= 0 /\ myrole[t] < 0 => s[t] = -1
      /\ ~spin'[t]
  BY <1>1, <1>2 DEF ScriptInv, ScriptOf, InIteration, Running
<1>4. Fixed' = Fixed /\ Remains(Iteration(myrole[t]), myrole[t])
  BY <1>1, <1>2, SameScript, Whole
<1>5. ASSUME todo'[t] = Iteration(myrole[t]), myrole[t] >= 0, s'[t] >= 0, nrun'[t] \in 0 .. nruns - 1
      PROVE  ScriptOf(t)'
  <2>1. Remains(todo'[t], myrole'[t])
    BY <1>2, <1>4, <1>5
  <2>2. Remains(todo[t], myrole[t])'
    BY <1>2, <2>1, SameScript
  <2>3. nrun'[t] # -1 /\ nrun'[t] # nruns /\ s'[t] # -1
    BY <1>1, <1>5
  <2> QED
    BY <1>2, <1>3, <1>5, <2>2, <2>3 DEF ScriptOf
<1>6. CASE nrun[t] >= 0 /\ myrole[t] >= 0 /\ s[t] + 1 < size
  <2>1. s' = [s EXCEPT ![t] = s[t] + 1] /\ todo' = [todo EXCEPT ![t] = Iteration(myrole[t])] /\ nrun' = nrun
    BY <1>6 DEF Loop
  <2> QED
    BY <1>1, <1>5, <1>6, <2>1
<1>7. CASE ~(nrun[t] >= 0 /\ myrole[t] >= 0 /\ s[t] + 1 < size)
  <2>1. nrun' = [nrun EXCEPT ![t] = nrun[t] + 1] /\ nrun'[t] = nrun[t] + 1
    BY <1>1, <1>7 DEF Loop
  <2>2. nrun'[t] # -1 /\ nrun'[t] >= 0
    BY <1>1, <2>1
  <2>3. CASE nrun[t] + 1 = nruns
    <3>1. UNCHANGED <<s, todo>>
      BY <1>7, <2>3 DEF Loop
    <3>2. nruns > 0 => s[t] = (IF myrole[t] >= 0 THEN size - 1 ELSE -1)
      BY <1>1, <1>3, <1>7, <2>3
    <3>3. ~Running(t)' /\ ~InIteration(t)'
      BY <1>1, <2>1, <2>3 DEF Running, InIteration
    <3> QED
      BY <1>2, <1>3, <2>1, <2>2, <3>1, <3>2, <3>3 DEF ScriptOf
  <2>4. CASE nrun[t] + 1 # nruns /\ (nrun[t] = -1 \/ ~Fixed)
    <3>1. s' = [s EXCEPT ![t] = -1] /\ todo' = [todo EXCEPT ![t] = SetRole]
      BY <1>7, <2>4 DEF Loop
    <3>2. s'[t] = -1 /\ todo'[t] = SetRole
      BY <1>1, <3>1
    <3>3. ~InIteration(t)' /\ nrun'[t] # nruns
      BY <1>1, <2>1, <2>4, <3>2 DEF InIteration
    <3>4. Fixed' => ~(nrun'[t] > 0)
      BY <1>1, <1>4, <2>1, <2>4
    <3> QED
      BY <1>2, <1>3, <2>2, <3>2, <3>3, <3>4 DEF ScriptOf, SetRole
  <2>5. CASE nrun[t] + 1 # nruns /\ ~(nrun[t] = -1 \/ ~Fixed) /\ myrole[t] < 0
    <3>1. UNCHANGED <<s, todo>>
      BY <1>7, <2>5 DEF Loop
    <3>2. s'[t] = -1 /\ todo'[t] = <<>> /\ nrun'[t] # nruns /\ myrole'[t] < 0
      BY <1>1, <1>2, <1>3, <2>1, <2>5, <3>1
    <3>3. ~InIteration(t)'
      BY <3>2 DEF InIteration
    <3> QED
      BY <1>2, <1>3, <2>2, <3>2, <3>3 DEF ScriptOf, SetRole
  <2>6. CASE nrun[t] + 1 # nruns /\ ~(nrun[t] = -1 \/ ~Fixed) /\ myrole[t] >= 0
    <3>1. s' = [s EXCEPT ![t] = 0] /\ todo' = [todo EXCEPT ![t] = Iteration(myrole[t])]
      BY <1>1, <1>7, <2>6 DEF Loop
    <3> QED
      BY <1>1, <1>5, <2>1, <2>6, <3>1
  <2> QED
    BY <1>1, <2>3, <2>4, <2>5, <2>6
<1> QED
  BY <1>6, <1>7

LEMMA StepScript == TypeInv /\ ScriptInv /\ [Next]_vars => ScriptInv'
<1> SUFFICES ASSUME TypeInv, ScriptInv, [Next]_vars PROVE ScriptInv'
  OBVIOUS
<1>a. \A t \in Tids : ScriptOf(t)
  BY DEF ScriptInv
<1>1. ASSUME NEW t \in Tids, init_global(t) PROVE ScriptInv'
  <2>1. PICK op \in {"init", "go", "wait_go"} : Op(t, op)
    BY <1>1 DEF init_global
  <2>2. todo[t] # <<>> /\ Head(todo[t]) = op /\ todo' = [todo EXCEPT ![t] = Tail(@)] /\ todo'[t] = Tail(todo[t])
    BY <2>1 DEF Op, At, TypeInv
  <2>3. nrun[t] = -1
    <3>1. ~InIteration(t)
      BY <2>2, Stands DEF OpAt
    <3>2. ~InSetRole(t)
      BY <2>2, GlobalPlace DEF At
    <3> QED
      BY <2>2, <3>1, <3>2, Stands
  <2>4. /\ t = 0 => \/ todo[t] = <<"init", "go">> /\ todo'[t] = <<"go">> /\ go' = go
                    \/ todo[t] = <<"go">> /\ todo'[t] = <<>> /\ go' = 1
        /\ t # 0 => todo[t] = <<"wait_go">> /\ todo'[t] = <<>> /\ go' = go /\ go = 1
    <3>1. t = 0 => todo[t] \in {<<"init", "go">>, <<"go">>}
      BY <1>a, <2>2, <2>3 DEF ScriptOf
    <3>2. t # 0 => todo[t] = <<"wait_go">>
      BY <1>a, <2>2, <2>3 DEF ScriptOf
    <3>3. /\ op = "init" => go' = go
          /\ op = "go" => go' = 1
          /\ op = "wait_go" => go' = go /\ go = 1
      BY <1>1, <2>1, <2>2 DEF init_global, Op, At, Started
    <3> QED
      BY <2>2, <3>1, <3>2, <3>3, ShortScripts
  <2>5. UNCHANGED <<cfg, draws, spin, ms, nrun, s, ctx, myrole>>
    BY <1>1 DEF init_global
  <2>6. ScriptOf(t)'
    <3>1. ~InIteration(t)' /\ ~Running(t)' /\ ~(nrun'[t] >= 0)
      BY <2>3, <2>5 DEF InIteration, Running
    <3>2. ~spin'[t]
      BY <2>2, <2>3, <2>5, <3>1, Stands DEF InSetRole, InIteration, Running
    <3>3. s[t] = 0 /\ ctx[t] = -1 /\ myrole[t] = -1 /\ (t = 0 => go = 0)
      BY <1>a, <2>2, <2>3 DEF ScriptOf
    <3>4. nrun'[t] # nruns
      BY <2>3, <2>5, Parameters
    <3> QED
      BY <2>3, <2>4, <2>5, <3>1, <3>2, <3>3, <3>4, ShortScripts DEF ScriptOf
  <2>7. ASSUME NEW u \in Tids \ {t} PROVE ScriptOf(u)'
    <3>1. go' = go \/ (go' = 1 /\ u # 0)
      BY <2>4, <2>7
    <3>2. todo'[u] = todo[u]
      BY <2>2, <2>7 DEF TypeInv
    <3> QED
      BY <1>a, <2>5, <3>1, <3>2, ScriptElsewhere
  <2> QED
    BY <2>6, <2>7 DEF ScriptInv
\* The steps of a thread that has started.
<1>2. ASSUME NEW t \in Tids, Advance(t), ~spin'[t], nrun[t] # -1,
             UNCHANGED <<cfg, go, nrun, s>>, \A u \in Tids \ {t} : spin'[u] = spin[u],
             \/ UNCHANGED <<ctx, myrole>>
             \/ /\ At(t, "set_role") /\ (ctx'[t] >= 0 <=> myrole'[t] >= 0)
                /\ \A u \in Tids \ {t} : ctx'[u] = ctx[u] /\ myrole'[u] = myrole[u]
      PROVE  ScriptInv'
  <2>1. ScriptOf(t)'
    BY <1>2, ScriptAdvance
  <2>2. ASSUME NEW u \in Tids \ {t} PROVE ScriptOf(u)'
    <3>1. todo'[u] = todo[u]
      BY <1>2, <2>2 DEF TypeInv, Advance
    <3> QED
      BY <1>a, <1>2, <3>1, ScriptElsewhere
  <2> QED
    BY <2>1, <2>2 DEF ScriptInv
<1>3. ASSUME NEW t \in Tids, barrier_wait(t) PROVE ScriptInv'
  <2>1. AtBar(t) /\ todo[t] # <<>> /\ UNCHANGED <<cfg, go, nrun, s, ctx, myrole>>
    BY <1>3 DEF barrier_wait, AtBar, At, shared
  <2>2. nrun[t] # -1
    <3>1. InIteration(t) \/ InSetRole(t)
      BY <2>1, BarFacts DEF AtBar
    <3> QED
      BY <3>1 DEF InIteration, InSetRole, Running
  <2>3. CASE Arrive(t) /\ barr[Bar(t)].c # 1
    <3>1. todo' = todo /\ spin' = [spin EXCEPT ![t] = TRUE]
      BY <2>1, <2>3, Arriving
    <3>2. ASSUME NEW u \in Tids \ {t} PROVE ScriptOf(u)'
      <4>1. spin'[u] = spin[u]
        BY <3>1, <3>2 DEF TypeInv
      <4> QED
        BY <1>a, <2>1, <3>1, <4>1, ScriptElsewhere
    <3>3. ScriptOf(t)'
      <4>1. /\ (InIteration(t)' <=> InIteration(t)) /\ (Running(t)' <=> Running(t)) /\ (AtBar(t)' <=> AtBar(t))
        BY <2>1, <3>1, Elsewhere DEF AtBar
      <4>2. Fixed' = Fixed /\ (Remains(todo[t], myrole[t])' <=> Remains(todo[t], myrole[t]))
        <5>1. Remains(todo'[t], myrole'[t]) <=> Remains(todo[t], myrole[t])
          BY <2>1, <3>1
        <5> QED
          BY <2>1, <5>1, SameScript
      <4> QED
        BY <1>a, <2>1, <3>1, <4>1, <4>2 DEF ScriptOf, SetRole
    <3> QED
      BY <3>2, <3>3 DEF ScriptInv
  <2>4. CASE Arrive(t) /\ barr[Bar(t)].c = 1
    <3>1. Advance(t) /\ spin' = spin /\ ~spin[t]
      BY <2>1, <2>4, Arriving
    <3> QED
      BY <1>2, <2>1, <2>2, <3>1
  <2>5. CASE Release(t)
    <3>1. Advance(t) /\ spin' = [spin EXCEPT ![t] = FALSE]
      BY <2>1, <2>5 DEF Release, Advance
    <3>2. ~spin'[t] /\ \A u \in Tids \ {t} : spin'[u] = spin[u]
      BY <3>1 DEF TypeInv
    <3> QED
      BY <1>2, <2>1, <2>2, <3>1, <3>2
  <2> QED
    BY <1>3, <2>3, <2>4, <2>5 DEF barrier_wait
<1>4. ASSUME NEW t \in Tids, set_role(t) PROVE ScriptInv'
  <2>1. Advance(t) /\ At(t, "set_role") /\ UNCHANGED <<cfg, go, nrun, s, spin>>
    BY <1>4 DEF set_role, Op, At, Advance, shared
  <2>2. InSetRole(t) /\ ~AtBar(t)
    BY <2>1, GlobalPlace DEF AtBar, At
  <2>3. nrun[t] # -1 /\ ~spin[t] /\ nrun[t] \in 0 .. nruns - 1
    BY <2>2, BarFacts, GlobalPlace DEF InSetRole, Running
  <2>4. \A u \in Tids \ {t} : ctx'[u] = ctx[u] /\ myrole'[u] = myrole[u]
    BY <1>4 DEF set_role, TypeInv
  <2>5. ctx'[t] >= 0 <=> myrole'[t] >= 0
    <3> DEFINE p == Part(t)
               k == inst[p][t]
               ok == 0 <= k /\ k < cfg.nexe
    <3>1. p \in Parts
      <4>1. cfg.part \in Parts \cup {-1}
        BY Flags DEF TypeInv
      <4> QED
        BY <2>3, <4>1 DEF Part, Fixed, Parts, TypeInv
    <3>2. k \in -1 .. NEXE - 1 /\ role[p][t] \in -1 .. N - 1
      BY <3>1, TopologyAssumption
    <3>3. ok => role[p][t] >= 0
      <4> SUFFICES ASSUME ok PROVE role[p][t] >= 0
        OBVIOUS
      <4>1. k \in Insts /\ t \in Crew(p, k)
        BY <3>2, Parameters DEF Insts, Crew
      <4>2. role[p][t] \in Roles
        BY <3>1, <4>1, TopologyAssumption
      <4> QED
        BY <4>2 DEF Roles
    <3>4. ctx'[t] = (IF ok THEN k ELSE -1) /\ myrole'[t] = (IF ok THEN role[p][t] ELSE -1)
      BY <1>4 DEF set_role, TypeInv
    <3> HIDE DEF p, k
    <3> QED
      BY <3>2, <3>3, <3>4
  <2>6. ~spin'[t] /\ \A u \in Tids \ {t} : spin'[u] = spin[u]
    BY <2>1, <2>3
  <2> QED
    BY <1>2, <2>1, <2>3, <2>4, <2>5, <2>6
<1>5. ASSUME NEW t \in Tids, Write(t) \/ Timebase(t) \/ Record(t) PROVE ScriptInv'
  <2>1. PICK op \in Steps : Op(t, op)
    BY <1>5 DEF Write, Timebase, Record, Steps
  <2>2. Advance(t) /\ At(t, op)
    BY <2>1 DEF Op, Advance, At
  <2>3. UNCHANGED <<cfg, go, nrun, s, spin, ctx, myrole>>
    BY <1>5 DEF Write, Timebase, Record, shared
  <2>4. ~spin[t] /\ InIteration(t)
    BY <2>2, Within
  <2>5. nrun[t] # -1
    BY <2>4 DEF InIteration, Running
  <2> QED
    BY <1>2, <2>2, <2>3, <2>4, <2>5
<1>6. ASSUME NEW t \in Tids, Loop(t) PROVE ScriptInv'
  <2>1. ScriptOf(t)'
    BY <1>6, ScriptLoop
  <2>2. ASSUME NEW u \in Tids \ {t} PROVE ScriptOf(u)'
    <3>1. todo'[u] = todo[u] /\ nrun'[u] = nrun[u] /\ s'[u] = s[u]
      BY <1>6, <2>2 DEF Loop, TypeInv
    <3>2. UNCHANGED <<cfg, go, spin, ctx, myrole>>
      BY <1>6 DEF Loop, shared
    <3> QED
      BY <1>a, <3>1, <3>2, ScriptElsewhere
  <2> QED
    BY <2>1, <2>2 DEF ScriptInv
<1>7. CASE UNCHANGED vars
  <2>1. UNCHANGED <<cfg, go, nrun, s, spin, ctx, myrole, todo>>
    BY <1>7 DEF vars, shared
  <2>2. \A u \in Tids : ScriptOf(u)'
    BY <1>a, <2>1, ScriptElsewhere
  <2> QED
    BY <2>2 DEF ScriptInv
<1> QED
  BY <1>1, <1>3, <1>4, <1>5, <1>6, <1>7 DEF Next, zyva, Finished

-----------------------------------------------------------------------------
(***************************************************************************)
(* What a step changes: the place of the thread that makes it, and no      *)
(* other.                                                                  *)
(***************************************************************************)
Same(u) ==
  /\ todo'[u] = todo[u] /\ spin'[u] = spin[u] /\ ms'[u] = ms[u] /\ nrun'[u] = nrun[u]
  /\ s'[u] = s[u] /\ ctx'[u] = ctx[u] /\ myrole'[u] = myrole[u] /\ tb0'[u] = tb0[u]

LEMMA Frame ==
  ASSUME TypeInv, NEW t \in Tids, zyva(t)
  PROVE  cfg' = cfg /\ draws' = draws /\ \A u \in Tids \ {t} : Same(u)
<1> DEFINE Others == \A u \in Tids \ {t} : Same(u)
<1>1. ASSUME NEW op, Op(t, op) PROVE \A u \in Tids \ {t} : todo'[u] = todo[u]
  BY <1>1 DEF Op, TypeInv
<1>2. CASE init_global(t)
  BY <1>1, <1>2 DEF init_global, Same
<1>3. CASE barrier_wait(t)
  <2>1. UNCHANGED <<cfg, draws, nrun, s, ctx, myrole, tb0>>
    BY <1>3 DEF barrier_wait, shared
  <2>2. \A u \in Tids \ {t} : todo'[u] = todo[u] /\ spin'[u] = spin[u] /\ ms'[u] = ms[u]
    BY <1>3 DEF barrier_wait, Arrive, Release, TypeInv
  <2> QED
    BY <2>1, <2>2 DEF Same
<1>4. CASE set_role(t)
  <2>1. UNCHANGED <<cfg, draws, spin, ms, nrun, s, tb0>>
    BY <1>4 DEF set_role, shared
  <2>2. \A u \in Tids \ {t} : todo'[u] = todo[u] /\ ctx'[u] = ctx[u] /\ myrole'[u] = myrole[u]
    BY <1>1, <1>4 DEF set_role, TypeInv
  <2> QED
    BY <2>1, <2>2 DEF Same
<1>5. CASE Loop(t)
  <2>1. UNCHANGED <<cfg, draws, spin, ms, ctx, myrole, tb0>>
    BY <1>5 DEF Loop, shared
  <2>2. \A u \in Tids \ {t} : todo'[u] = todo[u] /\ nrun'[u] = nrun[u] /\ s'[u] = s[u]
    BY <1>5 DEF Loop, TypeInv
  <2> QED
    BY <2>1, <2>2 DEF Same
<1>6. CASE Write(t) \/ Record(t)
  <2>1. UNCHANGED <<cfg, draws, spin, ms, nrun, s, ctx, myrole, tb0>>
    BY <1>6 DEF Write, Record, shared
  <2>2. \E op : Op(t, op)
    BY <1>6 DEF Write, Record
  <2> QED
    BY <1>1, <2>1, <2>2 DEF Same
<1>7. CASE Timebase(t)
  <2>1. UNCHANGED <<cfg, draws, spin, ms, nrun, s, ctx, myrole>>
    BY <1>7 DEF Timebase, shared
  <2>2. \E op : Op(t, op)
    BY <1>7 DEF Timebase
  <2>3. \A u \in Tids \ {t} : tb0'[u] = tb0[u]
    BY <1>7 DEF Timebase, TypeInv
  <2> QED
    BY <1>1, <2>1, <2>2, <2>3 DEF Same
<1> QED
  BY <1>2, <1>3, <1>4, <1>5, <1>6, <1>7 DEF zyva

\* The operations of the script that are neither barriers nor initialisations.
LEMMA Working ==
  ASSUME TypeInv, ScriptInv, NEW t \in Tids, Write(t) \/ Timebase(t) \/ Record(t)
  PROVE  /\ \E op \in Steps : At(t, op)
         /\ Advance(t) /\ InIteration(t) /\ ~spin[t] /\ ~AtBar(t)
         /\ ~At(t, "set_role") /\ ctx[t] \in Insts /\ myrole[t] \in Roles
         /\ UNCHANGED <<shared, spin, ms, nrun, s, ctx, myrole, barr>>
<1>1. PICK op \in Steps : Op(t, op)
  BY DEF Write, Timebase, Record, Steps
<1>2. At(t, op) /\ Advance(t)
  BY <1>1 DEF Op, Advance, At
<1>3. InIteration(t) /\ ctx[t] \in Insts /\ myrole[t] \in Roles /\ ~AtBar(t) /\ ~spin[t]
  BY <1>2, Within
<1>4. ~At(t, "set_role")
  BY <1>3, GlobalPlace
<1>5. UNCHANGED <<shared, spin, ms, nrun, s, ctx, myrole, barr>>
  BY DEF Write, Timebase, Record
<1> QED
  BY <1>2, <1>3, <1>4, <1>5

\* Before g->go is set.
LEMMA Initialising ==
  ASSUME TypeInv, ScriptInv, NEW t \in Tids, init_global(t)
  PROVE  /\ nrun[t] = -1 /\ ~AtBar(t) /\ ~spin[t] /\ ~spin'[t] /\ ~At(t, "set_role") /\ ctx[t] = -1
         /\ ~InIteration(t) /\ ~InSetRole(t)
         /\ UNCHANGED <<cfg, draws, spin, ms, nrun, s, ctx, myrole, data, next_tb, tb0, count>>
         /\ \/ /\ t = 0 /\ go = 0 /\ go' = 0 /\ todo'[0] = <<"go">>
               /\ barr' = [b \in Bars |-> [c |-> Width(b), sense |-> 0]]
            \/ t = 0 /\ go' = 1 /\ todo[0] = <<"go">> /\ barr' = barr
            \/ t # 0 /\ go = 1 /\ go' = 1 /\ barr' = barr
<1>1. PICK op \in {"init", "go", "wait_go"} : Op(t, op)
  BY DEF init_global
<1>2. todo[t] # <<>> /\ Head(todo[t]) = op /\ todo'[t] = Tail(todo[t])
  BY <1>1 DEF Op, At, TypeInv
<1>3. ~InIteration(t) /\ ~InSetRole(t)
  <2>1. ~InIteration(t)
    BY <1>2, Stands DEF OpAt
  <2>2. ~InSetRole(t)
    BY <1>2, GlobalPlace DEF At
  <2> QED
    BY <2>1, <2>2
<1>4. nrun[t] = -1 /\ ~spin[t]
  BY <1>2, <1>3, Stands
<1>5. /\ ctx[t] = -1
      /\ t = 0 => todo[t] \in {<<"init", "go">>, <<"go">>} /\ go = 0
      /\ t # 0 => todo[t] = <<"wait_go">>
  BY <1>2, <1>4 DEF ScriptInv, ScriptOf
<1>6. UNCHANGED <<cfg, draws, spin, ms, nrun, s, ctx, myrole, data, next_tb, tb0, count>>
  BY DEF init_global
<1>7. /\ op = "init" => go' = go /\ barr' = [b \in Bars |-> [c |-> Width(b), sense |-> 0]]
      /\ op = "go" => go' = 1 /\ barr' = barr
      /\ op = "wait_go" => go = 1 /\ go' = go /\ barr' = barr
  BY <1>1, <1>2 DEF init_global, Op, At, Started
<1>8. \/ /\ t = 0 /\ go = 0 /\ go' = 0 /\ todo'[0] = <<"go">>
         /\ barr' = [b \in Bars |-> [c |-> Width(b), sense |-> 0]]
      \/ t = 0 /\ go' = 1 /\ todo[0] = <<"go">> /\ barr' = barr
      \/ t # 0 /\ go = 1 /\ go' = 1 /\ barr' = barr
  BY <1>2, <1>5, <1>7, ShortScripts
<1>9. ~AtBar(t) /\ ~At(t, "set_role")
  BY <1>2, <1>3, GlobalPlace, BarFacts DEF AtBar
<1> QED
  BY <1>3, <1>4, <1>5, <1>6, <1>8, <1>9

\* A barrier_wait: the last arrival, another arrival, the exit.
LEMMA BarStep ==
  ASSUME TypeInv, ScriptInv, NEW t \in Tids, barrier_wait(t), NEW b, b = Bar(t)
  PROVE  /\ AtBar(t) /\ b \in Bars /\ ~At(t, "set_role")
         /\ UNCHANGED <<cfg, draws, go, nrun, s, ctx, myrole, data, next_tb, tb0, count>>
         /\ \A d \in Bars \ {b} : barr'[d] = barr[d]
         /\ \/ /\ ~spin[t] /\ barr[b].c = 1
               /\ barr'[b].c = Width(b) /\ barr'[b].sense # barr[b].sense
               /\ Advance(t) /\ ~spin'[t]
            \/ /\ ~spin[t] /\ barr[b].c # 1
               /\ barr'[b].c = barr[b].c - 1 /\ barr'[b].sense = barr[b].sense
               /\ todo' = todo /\ spin'[t] /\ ms'[t] = barr[b].sense
            \/ /\ spin[t] /\ ~Waits(t) /\ barr' = barr /\ Advance(t) /\ ~spin'[t]
<1>1. AtBar(t) /\ todo[t] # <<>>
  BY DEF barrier_wait, AtBar, At
<1>2. b \in Bars
  BY <1>1, BarFacts
<1>3. UNCHANGED <<cfg, draws, go, nrun, s, ctx, myrole, data, next_tb, tb0, count>>
  BY DEF barrier_wait, shared
<1>4. ~At(t, "set_role")
  BY <1>1 DEF AtBar, At
<1>5. spin \in [Tids -> BOOLEAN] /\ ms \in [Tids -> {0, 1}]
  BY DEF TypeInv
<1>6. CASE Arrive(t)
  <2>1. /\ ~spin[t]
        /\ \A d \in Bars \ {b} : barr'[d] = barr[d]
        /\ ms' = [ms EXCEPT ![t] = barr[b].sense]
        /\ \/ /\ barr[b].c = 1
              /\ barr'[b].c = Width(b) /\ barr'[b].sense # barr[b].sense
              /\ Advance(t) /\ spin' = spin
           \/ /\ barr[b].c # 1
              /\ barr'[b].c = barr[b].c - 1 /\ barr'[b].sense = barr[b].sense
              /\ todo' = todo /\ spin' = [spin EXCEPT ![t] = TRUE]
    BY <1>1, <1>6, Arriving
  <2>2. ms'[t] = barr[b].sense
    BY <1>5, <2>1
  <2> QED
    BY <1>1, <1>2, <1>3, <1>4, <1>5, <2>1, <2>2
<1>7. CASE Release(t)
  <2>1. spin[t] /\ barr[b].sense # ms[t] /\ barr' = barr /\ spin' = [spin EXCEPT ![t] = FALSE]
        /\ Advance(t)
    BY <1>1, <1>7 DEF Release, Advance
  <2>2. ~Waits(t)
    BY <2>1 DEF Waits
  <2> QED
    BY <1>1, <1>2, <1>3, <1>4, <1>5, <2>1, <2>2
<1> QED
  BY <1>6, <1>7 DEF barrier_wait

\* What each thread has passed, and what it holds, by its own steps.
LEMMA Moves ==
  ASSUME TypeInv, ScriptInv, NEW t \in Tids, zyva(t)
  PROVE  /\ ~init_global(t) => go = 1 /\ go' = 1
         /\ ~set_role(t) => ctx'[t] = ctx[t] /\ myrole'[t] = myrole[t] /\ Held(t)' = Held(t)
         /\ GBehind(t)' = GBehind(t) + One(At(t, "gsync") /\ Advance(t))
         /\ ctx[t] >= 0 /\ ~set_role(t) => Behind(t)' = Behind(t) + One(At(t, "sync") /\ Advance(t))
         /\ \A w \in Steps :
              /\ ctx[t] >= 0 /\ ~set_role(t) /\ (w = "final" => cfg.finals)
              /\ w \in Kinds \/ (w = "hash_add" /\ myrole[t] = 0)
              => Latest(t, w)' = IF At(t, w) THEN Now(t) ELSE Latest(t, w)
<1>0. nrun[t] \in Int /\ Starts(t) \in Int /\ GRem(t) \in Int /\ Held(t) \in Int /\ Syncs \in Int
      /\ cfg \in Settings
  <2>1. cfg \in Settings /\ nrun[t] \in Int
    BY Nows DEF TypeInv
  <2>2. Starts(t) \in Int /\ GRem(t) \in Int /\ Held(t) \in Int
    <3>1. Starts(t) \in 0 .. nruns /\ GRem(t) \in {0, 1, 2} /\ Held(t) \in 0 .. nruns
      BY GlobalPlace
    <3> QED
      BY <3>1, Parameters
  <2>3. 0 \in Nat
    OBVIOUS
  <2>4. Syncs \in Int
    BY <2>1, <2>3, Barriers
  <2> QED
    BY <2>1, <2>2, <2>4
<1>g. ASSUME todo[t] = <<>> \/ nrun[t] # -1 PROVE go = 1
  <2>1. nrun[t] = -1 \/ nrun[t] >= 0
    BY DEF TypeInv
  <2>2. /\ nrun[t] = -1 /\ todo[t] = <<>> => go = 1
        /\ nrun[t] >= 0 => go = 1
    BY DEF ScriptInv, ScriptOf
  <2> QED
    BY <1>g, <2>1, <2>2
<1>b. ctx[t] >= 0 => Begun(t) \in Int /\ Rem(t) \in Int /\ Behind(t) \in Int
                     /\ \A w : Latest(t, w) \in Int
  <2>1. Begun(t) \in Int /\ Now(t) \in Int
    BY Nows
  <2>2. Rem(t) \in Int
    <3>1. CASE InIteration(t)
      <4>1. Pos(t) \in Nat
        BY <3>1, Stands
      <4>2. Passed(Pos(t)) \in 0 .. Syncs
        BY <1>0, <4>1, Barriers
      <4> QED
        BY <1>0, <3>1, <4>2 DEF Rem
    <3> QED
      BY <3>1 DEF Rem
  <2>3. Syncs * Begun(t) \in Int
    BY <1>0, <2>1
  <2> QED
    BY <2>1, <2>2, <2>3 DEF Behind, Latest, One
\* A thread that stays where it is.
<1>s. ASSUME cfg' = cfg, nrun'[t] = nrun[t], s'[t] = s[t], todo'[t] = todo[t], myrole'[t] = myrole[t]
      PROVE  /\ Held(t)' = Held(t) /\ GBehind(t)' = GBehind(t) /\ Behind(t)' = Behind(t)
             /\ \A w : Latest(t, w)' = Latest(t, w)
  BY <1>s, Elsewhere
\* A step of an iteration.
<1>i. ASSUME Advance(t), InIteration(t), cfg' = cfg, nrun'[t] = nrun[t], s'[t] = s[t], myrole'[t] = myrole[t]
      PROVE  /\ Held(t)' = Held(t) /\ GBehind(t)' = GBehind(t) /\ ~At(t, "gsync")
             /\ ctx[t] >= 0 => Behind(t)' = Behind(t) + One(At(t, "sync"))
             /\ \A w \in Steps : (w = "final" => cfg.finals) =>
                  Latest(t, w)' = IF At(t, w) THEN Now(t) ELSE Latest(t, w)
  <2>1. /\ Held(t)' = Held(t) /\ GBehind(t)' = GBehind(t)
        /\ Begun(t)' = Now(t) /\ Begun(t) = Now(t) /\ Rem(t)' = Rem(t) - One(At(t, "sync"))
        /\ Rem(t) \in 0 .. Syncs
        /\ \A w \in Steps : (w = "final" => cfg.finals) =>
             Latest(t, w)' = IF At(t, w) THEN Now(t) ELSE Latest(t, w)
    BY <1>i, AdvanceIteration
  <2>2. ~At(t, "gsync")
    BY <1>i, GlobalPlace
  <2>3. Behind(t)' = Syncs * Now(t) - (Rem(t) - One(At(t, "sync")))
    BY <1>i, <2>1, SameScript DEF Behind
  <2>4. Behind(t) = Syncs * Now(t) - Rem(t)
    BY <2>1 DEF Behind
  <2>5. Syncs * Now(t) \in Int /\ One(At(t, "sync")) \in Int /\ Rem(t) \in Int
    <3>1. Now(t) \in Int
      BY Nows
    <3> QED
      BY <1>0, <2>1, <3>1 DEF One
  <2>6. Behind(t)' = Behind(t) + One(At(t, "sync"))
    BY <2>3, <2>4, <2>5
  <2> QED
    BY <2>1, <2>2, <2>6
<1>1. CASE init_global(t)
  <2>1. /\ nrun[t] = -1 /\ ctx[t] = -1 /\ ~AtBar(t) /\ ~InSetRole(t)
        /\ UNCHANGED <<cfg, draws, nrun, s, ctx, myrole>>
    BY <1>1, Initialising
  <2>2. ~InSetRole(t)' /\ Starts(t)' = Starts(t)
    BY <2>1, SameScript DEF InSetRole, Running, Starts
  <2>3. GRem(t)' = 0 /\ GRem(t) = 0 /\ Held(t)' = Held(t)
    BY <2>1, <2>2 DEF GRem, Held
  <2>4. ~(ctx[t] >= 0) /\ ~At(t, "gsync")
    BY <2>1 DEF AtBar
  <2>5. One(At(t, "gsync") /\ Advance(t)) = 0
    BY <2>4 DEF One
  <2> QED
    BY <1>0, <1>1, <2>1, <2>2, <2>3, <2>4, <2>5 DEF GBehind
<1>2. CASE barrier_wait(t)
  <2>1. /\ AtBar(t) /\ UNCHANGED <<cfg, draws, go, nrun, s, ctx, myrole>>
        /\ \/ Advance(t)
           \/ todo' = todo
    BY <1>2, BarStep
  <2>2. InIteration(t) \/ InSetRole(t)
    BY <2>1, BarFacts DEF AtBar
  <2>3. go = 1 /\ go' = 1
    BY <1>g, <2>1, <2>2 DEF InIteration, InSetRole, Running
  <2>4. \A w \in Steps : ~At(t, w)
    BY <2>1 DEF AtBar, At, Steps, Kinds
  <2>5. CASE Advance(t) /\ InIteration(t)
    <3>1. /\ One(At(t, "sync") /\ Advance(t)) = One(At(t, "sync"))
          /\ One(At(t, "gsync") /\ Advance(t)) = 0
      BY <1>i, <2>1, <2>5 DEF One
    <3> QED
      BY <1>0, <1>i, <2>1, <2>3, <2>4, <2>5, <3>1 DEF GBehind
  <2>6. CASE Advance(t) /\ InSetRole(t)
    <3>1. ~At(t, "sync") /\ At(t, "gsync")
      BY <2>1, <2>6, BarFacts, GlobalPlace DEF AtBar
    <3>2. /\ ~InIteration(t) /\ ~InIteration(t)' /\ Begun(t)' = Begun(t) /\ Rem(t)' = 0 /\ Rem(t) = 0
          /\ Starts(t)' = Starts(t) /\ GRem(t)' = GRem(t) - 1 /\ Held(t)' = Held(t)
      BY <2>1, <2>6, <3>1, AdvanceSetRole
    <3>3. Behind(t)' = Behind(t) /\ \A w : Latest(t, w)' = Latest(t, w)
      BY <2>1, <3>2, SameScript DEF Behind, Latest
    <3>4. GBehind(t)' = GBehind(t) + 1
      BY <1>0, <3>2 DEF GBehind
    <3>5. One(At(t, "sync") /\ Advance(t)) = 0 /\ One(At(t, "gsync") /\ Advance(t)) = 1
      BY <2>6, <3>1 DEF One
    <3> QED
      BY <1>b, <2>1, <2>3, <2>4, <3>2, <3>3, <3>4, <3>5
  <2>7. CASE todo' = todo
    <3>1. ~Advance(t)
      <4> SUFFICES ASSUME Advance(t) PROVE FALSE
        OBVIOUS
      <4>1. todo[t] # <<>> /\ todo'[t] = Tail(todo[t]) /\ todo[t] \in Seq(Ops)
        BY DEF Advance, TypeInv
      <4>2. Len(Tail(todo[t])) = Len(todo[t]) - 1 /\ Len(todo[t]) \in Nat
        BY <4>1, HeadTailProperties, LenProperties
      <4>3. Tail(todo[t]) = todo[t]
        BY <2>7, <4>1
      <4>4. Len(todo[t]) = Len(todo[t]) - 1
        BY <4>2, <4>3
      <4> QED
        BY <4>2, <4>4
    <3>2. One(At(t, "sync") /\ Advance(t)) = 0 /\ One(At(t, "gsync") /\ Advance(t)) = 0
      BY <3>1 DEF One
    <3> QED
      BY <1>0, <1>b, <1>s, <2>1, <2>3, <2>4, <2>7, <3>2 DEF GBehind
  <2> QED
    BY <2>1, <2>2, <2>5, <2>6, <2>7
<1>3. CASE set_role(t)
  <2>1. Advance(t) /\ At(t, "set_role") /\ UNCHANGED <<cfg, go, nrun, s>>
    BY <1>3 DEF set_role, Op, At, Advance, shared
  <2>2. InSetRole(t) /\ ~At(t, "gsync")
    BY <2>1, GlobalPlace DEF At
  <2>3. Starts(t)' = Starts(t) /\ GRem(t)' = GRem(t)
    BY <2>1, <2>2, AdvanceSetRole
  <2>4. One(At(t, "gsync") /\ Advance(t)) = 0
    BY <2>2 DEF One
  <2>5. go = 1
    BY <1>g, <2>2 DEF InSetRole, Running
  <2> QED
    BY <1>0, <1>3, <2>1, <2>3, <2>4, <2>5 DEF GBehind
<1>4. CASE Loop(t)
  <2>1. /\ \A op : ~At(t, op)
        /\ todo[t] = <<>> /\ GBehind(t)' = GBehind(t) /\ Held(t)' = Held(t)
        /\ ctx[t] >= 0 => Behind(t)' = Behind(t)
        /\ \A w \in Steps :
             ctx[t] >= 0 /\ (w = "final" => cfg.finals) /\ (w \in Kinds \/ (w = "hash_add" /\ myrole[t] = 0))
             => Latest(t, w)' = Latest(t, w)
    BY <1>4, LoopStep
  <2>2. ctx' = ctx /\ myrole' = myrole /\ go' = go
    BY <1>4 DEF Loop, shared
  <2>3. One(At(t, "sync") /\ Advance(t)) = 0 /\ One(At(t, "gsync") /\ Advance(t)) = 0
    BY <2>1 DEF One
  <2> QED
    BY <1>0, <1>b, <1>g, <2>1, <2>2, <2>3 DEF GBehind
<1>5. CASE Write(t) \/ Timebase(t) \/ Record(t)
  <2>1. /\ Advance(t) /\ InIteration(t) /\ ~AtBar(t) /\ UNCHANGED <<cfg, go, nrun, s, ctx, myrole>>
    BY <1>5, Working DEF shared
  <2>2. One(At(t, "sync") /\ Advance(t)) = 0 /\ One(At(t, "gsync") /\ Advance(t)) = 0 /\ One(At(t, "sync")) = 0
    BY <2>1 DEF One, AtBar
  <2>3. go = 1
    BY <1>g, <2>1 DEF InIteration, Running
  <2> QED
    BY <1>0, <1>b, <1>i, <2>1, <2>2, <2>3 DEF GBehind
<1> QED
  BY <1>1, <1>2, <1>3, <1>4, <1>5 DEF zyva

-----------------------------------------------------------------------------
(***************************************************************************)
(* Roles.                                                                  *)
(***************************************************************************)
LEMMA StillThere ==
  ASSUME TypeInv, NEW t \in Tids, zyva(t), NEW u \in Tids, u # t
  PROVE  /\ Same(u) /\ cfg' = cfg /\ draws' = draws
         /\ (InIteration(u)' <=> InIteration(u)) /\ (InSetRole(u)' <=> InSetRole(u))
         /\ Now(u)' = Now(u) /\ Begun(u)' = Begun(u) /\ Rem(u)' = Rem(u) /\ Behind(u)' = Behind(u)
         /\ Starts(u)' = Starts(u) /\ GRem(u)' = GRem(u) /\ GBehind(u)' = GBehind(u)
         /\ Held(u)' = Held(u) /\ Pos(u)' = Pos(u)
         /\ \A w : Latest(u, w)' = Latest(u, w)
         /\ \A op : At(u, op)' <=> At(u, op)
<1>1. Same(u) /\ cfg' = cfg /\ draws' = draws
  BY Frame
<1>2. nrun'[u] = nrun[u] /\ s'[u] = s[u] /\ todo'[u] = todo[u] /\ myrole'[u] = myrole[u]
  BY <1>1 DEF Same
<1> QED
  BY <1>1, <1>2, Elsewhere

LEMMA SameRows ==
  ASSUME cfg' = cfg, draws' = draws
  PROVE  \A h : RowOf(h)' = RowOf(h) /\ Base(h)' = Base(h)
  BY SameScript DEF RowOf, Base

LEMMA StepRow ==
  ASSUME TypeInv, ScriptInv, RowInv, NEW t \in Tids, zyva(t)
  PROVE  RowInv'
<1>1. cfg' = cfg /\ draws' = draws
  BY Frame
<1>2. ASSUME NEW u \in Tids, Held(u)' = Held(u), ctx'[u] = ctx[u], myrole'[u] = myrole[u]
      PROVE  RoleOf(u)'
  <2>1. RowOf(Held(u))' = RowOf(Held(u))
    BY <1>1, <1>2 DEF RowOf, Fixed
  <2> QED
    BY <1>1, <1>2, <2>1 DEF RowInv, RoleOf
<1>3. ASSUME NEW u \in Tids, u # t PROVE RoleOf(u)'
  BY <1>2, <1>3, StillThere DEF Same
<1>4. CASE ~set_role(t)
  <2>1. RoleOf(t)'
    BY <1>2, <1>4, Moves
  <2> QED
    BY <1>3, <2>1 DEF RowInv
<1>5. CASE set_role(t)
  <2> DEFINE p == Part(t)
             k == inst[p][t]
             ok == 0 <= k /\ k < cfg.nexe
  <2>1. Advance(t) /\ At(t, "set_role") /\ UNCHANGED <<nrun, s>>
    BY <1>5 DEF set_role, Op, At, Advance
  <2>2. InSetRole(t)
    BY <2>1, GlobalPlace DEF At
  <2>3. Held(t)' = nrun[t] + 1
    BY <1>1, <2>1, <2>2, AdvanceSetRole, GlobalPlace
  <2>4. nrun[t] \in Int /\ nrun[t] >= 0
    BY <2>2, Nows DEF InSetRole, Running
  <2>5. RowOf(Held(t))' = p
    BY <1>1, <2>3, <2>4 DEF RowOf, Part, Fixed
  <2>6. ctx'[t] = (IF ok THEN k ELSE -1) /\ myrole'[t] = (IF ok THEN role[p][t] ELSE -1)
    BY <1>5 DEF set_role, TypeInv
  <2>7. Held(t)' > 0
    BY <2>3, <2>4
  <2> HIDE DEF p
  <2>8. RoleOf(t)'
    BY <1>1, <2>5, <2>6, <2>7 DEF RoleOf
  <2> QED
    BY <1>3, <2>8 DEF RowInv
<1> QED
  BY <1>4, <1>5

-----------------------------------------------------------------------------
(***************************************************************************)
(* Barriers: the threads that wait, and the last of them.                  *)
(***************************************************************************)
LEMMA OneMore ==
  ASSUME NEW W, IsFiniteSet(W), NEW t, t \notin W
  PROVE  IsFiniteSet(W \cup {t}) /\ Cardinality(W \cup {t}) = Cardinality(W) + 1
         /\ Cardinality(W) \in Nat
  BY FS_AddElement, FS_CardinalityType

LEMMA LastOne ==
  ASSUME NEW M, IsFiniteSet(M), NEW W \in SUBSET M, NEW t \in M, t \notin W,
         Cardinality(M) - Cardinality(W) = 1
  PROVE  W \cup {t} = M
<1>1. IsFiniteSet(W) /\ Cardinality(W) \in Nat /\ Cardinality(M) \in Nat
  BY FS_Subset, FS_CardinalityType
<1>2. Cardinality(W \cup {t}) = Cardinality(M)
  BY <1>1, OneMore
<1>3. W \cup {t} \subseteq M
  OBVIOUS
<1> QED
  BY <1>2, <1>3, FS_Subset

\* Another thread waits as it did, when its barrier keeps its sense.
LEMMA WaitsElsewhere ==
  ASSUME TypeInv, NEW t \in Tids, zyva(t), NEW u \in Tids, u # t
  PROVE  /\ Bar(u)' = Bar(u) /\ spin'[u] = spin[u]
         /\ barr'[Bar(u)].sense = barr[Bar(u)].sense => (Waits(u)' <=> Waits(u))
<1>1. ctx'[u] = ctx[u] /\ spin'[u] = spin[u] /\ ms'[u] = ms[u] /\ \A op : At(u, op)' <=> At(u, op)
  BY StillThere DEF Same
<1>2. Bar(u)' = Bar(u)
  BY <1>1 DEF Bar, GB
<1> QED
  BY <1>1, <1>2 DEF Waits

\* A thread does not spin in a barrier it has not reached.
LEMMA StillMoving ==
  ASSUME TypeInv, ScriptInv, NEW t \in Tids, zyva(t), NEW op \in {"sync", "gsync"}, ~At(t, op)
  PROVE  ~(At(t, op)' /\ spin'[t])
<1>1. CASE init_global(t)
  BY <1>1, Initialising
<1>2. CASE barrier_wait(t)
  <2>1. ~spin'[t] \/ todo' = todo
    BY <1>2, BarStep
  <2> QED
    BY <2>1 DEF At
<1>3. CASE set_role(t)
  <2>1. At(t, "set_role") /\ spin' = spin
    BY <1>3 DEF set_role, Op
  <2>2. ~spin[t]
    BY <2>1, BarFacts DEF AtBar, At
  <2> QED
    BY <2>1, <2>2
<1>4. CASE Loop(t)
  BY <1>4, LoopStep DEF Loop
<1>5. CASE Write(t) \/ Timebase(t) \/ Record(t)
  BY <1>5, Working
<1> QED
  BY <1>1, <1>2, <1>3, <1>4, <1>5 DEF zyva

\* The barriers that a step leaves alone.
LEMMA OtherBars ==
  ASSUME TypeInv, ScriptInv, NEW t \in Tids, zyva(t), ~init_global(t), NEW d \in Bars,
         ~(AtBar(t) /\ Bar(t) = d)
  PROVE  barr'[d] = barr[d]
<1>1. CASE barrier_wait(t)
  BY <1>1, BarStep
<1>2. CASE set_role(t)
  BY <1>2 DEF set_role
<1>3. CASE Loop(t)
  BY <1>3 DEF Loop
<1>4. CASE Write(t) \/ Timebase(t) \/ Record(t)
  BY <1>4, Working
<1> QED
  BY <1>1, <1>2, <1>3, <1>4 DEF zyva

\* A thread at a barrier can only wait there.
LEMMA BarrierFirst ==
  ASSUME TypeInv, ScriptInv, NEW t \in Tids, zyva(t), AtBar(t)
  PROVE  barrier_wait(t)
<1>1. ~init_global(t)
  BY Initialising
<1>2. ~set_role(t)
  BY DEF set_role, Op, AtBar, At
<1>3. ~Loop(t)
  BY DEF Loop, AtBar, At
<1>4. ~(Write(t) \/ Timebase(t) \/ Record(t))
  BY Working
<1> QED
  BY <1>1, <1>2, <1>3, <1>4 DEF zyva

\* Nobody waits before g->go is set.
LEMMA NobodyYet ==
  ASSUME TypeInv, ScriptInv, go = 0, NEW u \in Tids
  PROVE  nrun[u] = -1 /\ ctx[u] = -1 /\ ~spin[u] /\ ~InIteration(u) /\ ~InSetRole(u) /\ ~AtBar(u)
<1>1. nrun[u] = -1
  BY DEF TypeInv, ScriptInv, ScriptOf
<1>2. ~InIteration(u) /\ ~InSetRole(u)
  BY <1>1 DEF InIteration, InSetRole, Running
<1>3. ~AtBar(u)
  BY <1>2, BarFacts DEF AtBar
<1> QED
  BY <1>1, <1>2, <1>3, BarFacts DEF ScriptInv, ScriptOf

-----------------------------------------------------------------------------
(***************************************************************************)
(* The barrier of all the threads.                                         *)
(***************************************************************************)
GWaiting == {u \in Tids : At(u, "gsync") /\ Waits(u)}

LEMMA GlobalQuiet ==
  ASSUME TypeInv, ScriptInv, NEW R \in Nat, GlobalInv(R), NEW t \in Tids, zyva(t),
         ~init_global(t), ~At(t, "gsync")
  PROVE  GlobalInv(R)'
<1>1. GB \in Bars /\ barr'[GB] = barr[GB]
  <2>1. GB \in Bars
    BY DEF Bars
  <2>2. ~(AtBar(t) /\ Bar(t) = GB)
    BY BarFacts DEF AtBar
  <2> QED
    BY <2>1, <2>2, OtherBars
<1>2. \A u \in Tids : At(u, "gsync") => Bar(u) = GB
  BY DEF Bar
<1>3. GBehind(t)' = GBehind(t)
  <2>1. One(At(t, "gsync") /\ Advance(t)) = 0
    BY DEF One
  <2>2. GBehind(t) \in Int
    <3>1. Starts(t) \in 0 .. nruns /\ GRem(t) \in {0, 1, 2}
      BY GlobalPlace
    <3> QED
      BY <3>1, Parameters DEF GBehind
  <2> QED
    BY <2>1, <2>2, Moves
<1>4. ~(At(t, "gsync")' /\ spin'[t])
  BY StillMoving
<1>5. Round(R, t, "gsync", GBehind(t))'
  <2>1. GBehind(t) = R
    BY DEF GlobalInv, Round
  <2> QED
    BY <1>3, <1>4, <2>1 DEF Round
<1>6. ASSUME NEW u \in Tids, u # t
      PROVE  /\ (At(u, "gsync") /\ Waits(u))' <=> At(u, "gsync") /\ Waits(u)
             /\ Round(R, u, "gsync", GBehind(u))'
  <2>1. (At(u, "gsync")' <=> At(u, "gsync")) /\ GBehind(u)' = GBehind(u)
    BY <1>6, StillThere
  <2>2. spin'[u] = spin[u] /\ (At(u, "gsync") => (Waits(u)' <=> Waits(u)))
    BY <1>1, <1>2, <1>6, WaitsElsewhere
  <2>3. Round(R, u, "gsync", GBehind(u))
    BY DEF GlobalInv
  <2> QED
    BY <2>1, <2>2, <2>3 DEF Round
<1>7. GWaiting' = GWaiting
  BY <1>4, <1>6 DEF GWaiting, Waits
<1>8. Ready' => Ready
  BY Moves DEF Ready
<1>9. barr[GB].c = AVAIL - Cardinality(GWaiting) => barr'[GB].c = AVAIL - Cardinality(GWaiting')
  BY <1>1, <1>7
<1>10. Ready => barr[GB].c = AVAIL - Cardinality(GWaiting)
  BY DEF GlobalInv, GWaiting
<1>11. Ready' => barr'[GB].c = AVAIL - Cardinality(GWaiting')
  BY <1>8, <1>9, <1>10
<1>12. \A u \in Tids : Round(R, u, "gsync", GBehind(u))'
  BY <1>5, <1>6
<1> QED
  BY <1>11, <1>12 DEF GlobalInv, GWaiting

LEMMA GlobalStart ==
  ASSUME TypeInv, ScriptInv, NEW R \in Nat, GlobalInv(R), NEW t \in Tids, init_global(t)
  PROVE  GlobalInv(R)'
<1>i. /\ nrun[t] = -1 /\ ~AtBar(t) /\ ~spin[t] /\ ~spin'[t] /\ ~InIteration(t) /\ ~InSetRole(t)
      /\ UNCHANGED <<cfg, draws, spin, ms, nrun, s, ctx, myrole, data, next_tb, tb0, count>>
      /\ \/ /\ t = 0 /\ go = 0 /\ go' = 0 /\ todo'[0] = <<"go">>
            /\ barr' = [b \in Bars |-> [c |-> Width(b), sense |-> 0]]
         \/ t = 0 /\ go' = 1 /\ todo[0] = <<"go">> /\ barr' = barr
         \/ t # 0 /\ go = 1 /\ go' = 1 /\ barr' = barr
  BY Initialising
<1>z. zyva(t)
  BY DEF zyva
<1>1. ~At(t, "gsync") /\ GBehind(t)' = GBehind(t) /\ ~(At(t, "gsync")' /\ spin'[t])
  <2>1. One(At(t, "gsync") /\ Advance(t)) = 0 /\ ~At(t, "gsync")
    BY <1>i DEF One, AtBar
  <2>2. GBehind(t) \in Int
    <3>1. Starts(t) \in 0 .. nruns /\ GRem(t) \in {0, 1, 2}
      BY GlobalPlace
    <3> QED
      BY <3>1, Parameters DEF GBehind
  <2> QED
    BY <1>i, <1>z, <2>1, <2>2, Moves
<1>2. Round(R, t, "gsync", GBehind(t))'
  <2>1. GBehind(t) = R
    BY <1>1 DEF GlobalInv, Round
  <2> QED
    BY <1>1, <2>1 DEF Round
<1>3. CASE barr' = barr /\ (go = 1 \/ todo[0] = <<"go">>)
  <2>1. \A u \in Tids : At(u, "gsync") => Bar(u) = GB
    BY DEF Bar
  <2>2. ASSUME NEW u \in Tids, u # t
        PROVE  /\ (At(u, "gsync") /\ Waits(u))' <=> At(u, "gsync") /\ Waits(u)
               /\ Round(R, u, "gsync", GBehind(u))'
    <3>1. (At(u, "gsync")' <=> At(u, "gsync")) /\ GBehind(u)' = GBehind(u)
      BY <1>z, <2>2, StillThere
    <3>2. spin'[u] = spin[u] /\ (At(u, "gsync") => (Waits(u)' <=> Waits(u)))
      BY <1>3, <1>z, <2>1, <2>2, WaitsElsewhere
    <3>3. Round(R, u, "gsync", GBehind(u))
      BY DEF GlobalInv
    <3> QED
      BY <3>1, <3>2, <3>3 DEF Round
  <2>3. GWaiting' = GWaiting
    BY <1>1, <2>2 DEF GWaiting, Waits
  <2>4. Ready' => Ready
    BY <1>3 DEF Ready
  <2>5. Ready => barr[GB].c = AVAIL - Cardinality(GWaiting)
    BY DEF GlobalInv, GWaiting
  <2>6. Ready' => barr'[GB].c = AVAIL - Cardinality(GWaiting')
    BY <1>3, <2>3, <2>4, <2>5
  <2>7. \A u \in Tids : Round(R, u, "gsync", GBehind(u))'
    BY <1>2, <2>2
  <2> QED
    BY <2>6, <2>7 DEF GlobalInv, GWaiting
<1>4. CASE go = 0 /\ barr' = [b \in Bars |-> [c |-> Width(b), sense |-> 0]]
  <2>1. barr'[GB].c = AVAIL
    BY <1>4 DEF Bars, Width
  <2>2. ASSUME NEW u \in Tids, u # t
        PROVE  ~At(u, "gsync")' /\ Round(R, u, "gsync", GBehind(u))'
    <3>1. (At(u, "gsync")' <=> At(u, "gsync")) /\ GBehind(u)' = GBehind(u)
      BY <1>z, <2>2, StillThere
    <3>2. ~At(u, "gsync")
      BY <1>4, NobodyYet DEF AtBar
    <3>3. Round(R, u, "gsync", GBehind(u))
      BY DEF GlobalInv
    <3> QED
      BY <3>1, <3>2, <3>3 DEF Round
  <2>3. GWaiting' = {}
    BY <1>1, <2>2 DEF GWaiting, Waits
  <2>4. barr'[GB].c = AVAIL - Cardinality(GWaiting')
    BY <2>1, <2>3, FS_EmptySet, Parameters
  <2>5. \A u \in Tids : Round(R, u, "gsync", GBehind(u))'
    BY <1>2, <2>2
  <2> QED
    BY <2>4, <2>5 DEF GlobalInv, GWaiting
<1> QED
  BY <1>3, <1>4, <1>i

LEMMA GlobalBarrier ==
  ASSUME TypeInv, ScriptInv, NEW R \in Nat, GlobalInv(R), NEW t \in Tids, zyva(t), At(t, "gsync")
  PROVE  \/ GlobalInv(R)'
         \/ /\ GlobalInv(R + 1)' /\ Advance(t)
            /\ \A u \in Tids : At(u, "gsync") /\ GBehind(u) = R
<1>0. barrier_wait(t) /\ Bar(t) = GB /\ GB \in Bars /\ Width(GB) = AVAIL /\ AtBar(t)
  BY BarrierFirst, BarFacts DEF AtBar, Bars
<1>b. /\ barr[GB].c \in Int /\ barr[GB].sense \in {0, 1} /\ ms[t] \in {0, 1} /\ AVAIL \in Nat
      /\ \A u \in Tids : GBehind(u) \in Int
  <2>1. ASSUME NEW u \in Tids PROVE GBehind(u) \in Int
    <3>1. Starts(u) \in 0 .. nruns /\ GRem(u) \in {0, 1, 2}
      BY GlobalPlace
    <3> QED
      BY <3>1, Parameters DEF GBehind
  <2> QED
    BY <1>0, <2>1, Parameters DEF TypeInv
<1>1. \A u \in Tids : At(u, "gsync") => Bar(u) = GB
  BY DEF Bar
<1>2. IsFiniteSet(GWaiting) /\ Cardinality(GWaiting) \in Nat /\ GWaiting \in SUBSET Tids
  BY Parameters, FS_Subset, FS_CardinalityType DEF GWaiting
<1>3. barr[GB].c = AVAIL - Cardinality(GWaiting) /\ go = 1
  <2>1. ~init_global(t)
    BY <1>0, Initialising
  <2> QED
    BY <2>1, Moves DEF GlobalInv, GWaiting, Ready
<1>4. ASSUME NEW u \in Tids, u # t
      PROVE  /\ (At(u, "gsync")' <=> At(u, "gsync")) /\ GBehind(u)' = GBehind(u)
             /\ spin'[u] = spin[u]
             /\ barr'[GB].sense = barr[GB].sense /\ At(u, "gsync") => (Waits(u)' <=> Waits(u))
             /\ Round(R, u, "gsync", GBehind(u))
  BY <1>1, <1>4, StillThere, WaitsElsewhere DEF GlobalInv
<1>5. Round(R, t, "gsync", GBehind(t))
  BY DEF GlobalInv
<1>6. GBehind(t)' = GBehind(t) + One(Advance(t))
  BY Moves DEF One
\* The last arrival.
<1>7. CASE /\ ~spin[t] /\ barr[GB].c = 1
           /\ barr'[GB].c = AVAIL /\ barr'[GB].sense # barr[GB].sense
           /\ Advance(t) /\ ~spin'[t]
  <2>1. t \notin GWaiting /\ GBehind(t) = R
    BY <1>5, <1>7 DEF GWaiting, Waits, Round
  <2>2. GWaiting \cup {t} = Tids
    BY <1>2, <1>3, <1>7, <2>1, Parameters, LastOne
  <2>3. ASSUME NEW u \in Tids, u # t
        PROVE  At(u, "gsync") /\ Waits(u) /\ GBehind(u) = R /\ At(u, "gsync")' /\ spin'[u] /\ ~Waits(u)'
    <3>1. At(u, "gsync") /\ Waits(u)
      BY <2>2, <2>3 DEF GWaiting
    <3>2. GBehind(u) = R
      BY <1>4, <2>3, <3>1 DEF Round
    <3>3. At(u, "gsync")' /\ spin'[u]
      BY <1>4, <2>3, <3>1 DEF Waits
    <3>4. Bar(u)' = GB /\ ms'[u] = ms[u] /\ ms[u] = barr[GB].sense
      BY <1>1, <2>3, <3>1, StillThere, WaitsElsewhere DEF Waits, Same
    <3>5. ~Waits(u)'
      BY <1>7, <3>4 DEF Waits
    <3> QED
      BY <3>1, <3>2, <3>3, <3>5
  <2>4. \A u \in Tids : Round(R + 1, u, "gsync", GBehind(u))'
    <3>1. GBehind(t)' = R + 1
      BY <1>6, <1>7, <2>1 DEF One
    <3>2. Round(R + 1, t, "gsync", GBehind(t))'
      BY <1>7, <3>1 DEF Round
    <3>3. ASSUME NEW u \in Tids, u # t PROVE Round(R + 1, u, "gsync", GBehind(u))'
      BY <1>4, <2>3, <3>3 DEF Round
    <3> QED
      BY <3>2, <3>3
  <2>5. GWaiting' = {}
    BY <1>7, <2>3 DEF GWaiting, Waits
  <2>6. barr'[GB].c = AVAIL - Cardinality(GWaiting')
    BY <1>7, <1>b, <2>5, FS_EmptySet
  <2>7. GlobalInv(R + 1)'
    BY <2>4, <2>6 DEF GlobalInv, GWaiting
  <2> QED
    BY <1>7, <2>1, <2>3, <2>7
\* Another arrival.
<1>8. CASE /\ ~spin[t] /\ barr[GB].c # 1
           /\ barr'[GB].c = barr[GB].c - 1 /\ barr'[GB].sense = barr[GB].sense
           /\ todo' = todo /\ spin'[t] /\ ms'[t] = barr[GB].sense
  <2>1. t \notin GWaiting /\ GBehind(t) = R
    BY <1>5, <1>8 DEF GWaiting, Waits, Round
  <2>2. At(t, "gsync")' /\ Waits(t)' /\ GBehind(t)' = GBehind(t)
    <3>1. At(t, "gsync")' /\ Bar(t)' = GB
      BY <1>8 DEF At, Bar, GB
    <3>2. Waits(t)'
      BY <1>8, <3>1 DEF Waits
    <3>3. GBehind(t)' = GBehind(t)
      <4>1. UNCHANGED <<cfg, nrun, s, myrole>>
        BY <1>0, BarStep
      <4> QED
        BY <1>8, <4>1, Elsewhere
    <3> QED
      BY <3>1, <3>2, <3>3
  <2>3. GWaiting' = GWaiting \cup {t}
    BY <1>4, <1>8, <2>2 DEF GWaiting
  <2>4. barr'[GB].c = AVAIL - Cardinality(GWaiting')
    BY <1>2, <1>3, <1>8, <1>b, <2>1, <2>3, OneMore
  <2>5. ASSUME NEW u \in Tids PROVE Round(R, u, "gsync", GBehind(u))'
    <3>1. CASE u = t
      BY <2>1, <2>2, <3>1 DEF Round
    <3>2. CASE u # t
      BY <1>4, <1>8, <3>2 DEF Round
    <3> QED
      BY <3>1, <3>2
  <2>6. GlobalInv(R)'
    BY <2>4, <2>5 DEF GlobalInv, GWaiting
  <2> QED
    BY <2>6
\* The exit.
<1>9. CASE /\ spin[t] /\ ~Waits(t) /\ barr' = barr /\ Advance(t) /\ ~spin'[t]
  <2>1. t \notin GWaiting /\ GBehind(t) = R - 1
    BY <1>5, <1>9 DEF GWaiting, Round
  <2>2. GWaiting' = GWaiting
    BY <1>4, <1>9, <2>1 DEF GWaiting, Waits
  <2>3. GBehind(t)' = R
    BY <1>6, <1>9, <2>1 DEF One
  <2>4. ASSUME NEW u \in Tids PROVE Round(R, u, "gsync", GBehind(u))'
    <3>1. CASE u = t
      BY <1>9, <2>3, <3>1 DEF Round
    <3>2. CASE u # t
      BY <1>4, <1>9, <3>2 DEF Round
    <3> QED
      BY <3>1, <3>2
  <2>5. barr'[GB].c = AVAIL - Cardinality(GWaiting')
    BY <1>3, <1>9, <2>2
  <2>6. GlobalInv(R)'
    BY <2>4, <2>5 DEF GlobalInv, GWaiting
  <2> QED
    BY <2>6
<1> QED
  BY <1>0, <1>7, <1>8, <1>9, BarStep

LEMMA StepGlobal ==
  ASSUME TypeInv, ScriptInv, NEW R \in Nat, GlobalInv(R), NEW t \in Tids, zyva(t)
  PROVE  \/ GlobalInv(R)'
         \/ /\ GlobalInv(R + 1)' /\ At(t, "gsync") /\ Advance(t) /\ barrier_wait(t)
            /\ \A u \in Tids : At(u, "gsync") /\ GBehind(u) = R
  BY GlobalQuiet, GlobalStart, GlobalBarrier, BarrierFirst DEF AtBar

-----------------------------------------------------------------------------
(***************************************************************************)
(* The barrier of an instance.                                             *)
(***************************************************************************)
LEMMA InstQuiet ==
  ASSUME TypeInv, ScriptInv, NEW k \in Insts, InstOf(k), NEW t \in Tids, zyva(t),
         ~init_global(t), ~set_role(t), ~(At(t, "sync") /\ ctx[t] = k)
  PROVE  InstOf(k)'
<1>1. k \in Bars /\ barr'[k] = barr[k]
  <2>1. k \in Bars /\ k # GB
    BY Parameters DEF Bars, Insts, GB
  <2>2. ~(AtBar(t) /\ Bar(t) = k)
    BY <2>1, BarFacts DEF AtBar
  <2> QED
    BY <2>1, <2>2, OtherBars
<1>2. \A u \in Tids : At(u, "sync") /\ ctx[u] = k => Bar(u) = k
  BY BarFacts
<1>3. PICK R \in Int : \A u \in Tids : ctx[u] = k => Round(R, u, "sync", Behind(u))
  BY DEF InstOf
<1>4. ctx'[t] = ctx[t]
  BY Moves
<1>5. ASSUME ctx[t] = k PROVE ~(At(t, "sync")' /\ spin'[t]) /\ Round(R, t, "sync", Behind(t))'
  <2>1. ~At(t, "sync") /\ ~(At(t, "sync")' /\ spin'[t])
    BY <1>5, StillMoving
  <2>2. Behind(t) = R
    BY <1>3, <1>5, <2>1 DEF Round
  <2>3. One(At(t, "sync") /\ Advance(t)) = 0 /\ ctx[t] >= 0
    BY <1>5, <2>1 DEF One, Insts
  <2>4. Behind(t)' = Behind(t)
    BY <2>2, <2>3, Moves
  <2> QED
    BY <2>1, <2>2, <2>4 DEF Round
<1>6. ASSUME NEW u \in Tids, u # t
      PROVE  /\ ctx'[u] = ctx[u]
             /\ ctx[u] = k => ((At(u, "sync") /\ Waits(u))' <=> At(u, "sync") /\ Waits(u))
             /\ ctx[u] = k => Round(R, u, "sync", Behind(u))'
  <2>1. ctx'[u] = ctx[u] /\ (At(u, "sync")' <=> At(u, "sync")) /\ Behind(u)' = Behind(u)
    BY <1>6, StillThere DEF Same
  <2>2. spin'[u] = spin[u] /\ (At(u, "sync") /\ ctx[u] = k => (Waits(u)' <=> Waits(u)))
    BY <1>1, <1>2, <1>6, WaitsElsewhere
  <2>3. ctx[u] = k => Round(R, u, "sync", Behind(u))
    BY <1>3
  <2> QED
    BY <2>1, <2>2, <2>3 DEF Round
<1>7. Waiting(k)' = Waiting(k)
  <2>1. t \notin Waiting(k) /\ ~(ctx'[t] = k /\ At(t, "sync")' /\ Waits(t)')
    BY <1>4, <1>5 DEF Waiting, Waits
  <2> QED
    BY <1>6, <2>1 DEF Waiting
<1>8. Ready' => Ready
  BY Moves DEF Ready
<1>9. Ready' => barr'[k].c = N - Cardinality(Waiting(k)')
  BY <1>1, <1>7, <1>8 DEF InstOf
<1>10. \A u \in Tids : ctx'[u] = k => Round(R, u, "sync", Behind(u))'
  BY <1>4, <1>5, <1>6
<1> QED
  BY <1>9, <1>10 DEF InstOf

LEMMA InstStart ==
  ASSUME TypeInv, ScriptInv, NEW k \in Insts, InstOf(k), NEW t \in Tids, init_global(t)
  PROVE  InstOf(k)'
<1>z. zyva(t)
  BY DEF zyva
<1>i. /\ nrun[t] = -1 /\ ~AtBar(t) /\ ~spin[t] /\ ~spin'[t] /\ ctx[t] = -1
      /\ UNCHANGED <<cfg, draws, spin, ms, nrun, s, ctx, myrole, data, next_tb, tb0, count>>
      /\ \/ /\ t = 0 /\ go = 0 /\ go' = 0 /\ todo'[0] = <<"go">>
            /\ barr' = [b \in Bars |-> [c |-> Width(b), sense |-> 0]]
         \/ t = 0 /\ go' = 1 /\ todo[0] = <<"go">> /\ barr' = barr
         \/ t # 0 /\ go = 1 /\ go' = 1 /\ barr' = barr
  BY Initialising
<1>1. k \in Bars /\ k # GB /\ k # -1
  BY Parameters DEF Bars, Insts, GB
<1>2. PICK R \in Int : \A u \in Tids : ctx[u] = k => Round(R, u, "sync", Behind(u))
  BY DEF InstOf
<1>3. CASE barr' = barr /\ (go = 1 \/ todo[0] = <<"go">>)
  <2>1. \A u \in Tids : At(u, "sync") /\ ctx[u] = k => Bar(u) = k
    BY BarFacts
  <2>2. ASSUME NEW u \in Tids, ctx[u] = k
        PROVE  /\ (At(u, "sync") /\ Waits(u))' <=> At(u, "sync") /\ Waits(u)
               /\ Round(R, u, "sync", Behind(u))'
    <3>0. u # t
      BY <1>1, <1>i, <2>2
    <3>1. (At(u, "sync")' <=> At(u, "sync")) /\ Behind(u)' = Behind(u)
      BY <1>z, <3>0, StillThere
    <3>2. spin'[u] = spin[u] /\ (Waits(u)' <=> Waits(u))
      BY <1>3, <1>z, <3>0, WaitsElsewhere
    <3>3. Round(R, u, "sync", Behind(u))
      BY <1>2, <2>2
    <3> QED
      BY <3>1, <3>2, <3>3 DEF Round
  <2>3. Waiting(k)' = Waiting(k)
    BY <1>i, <2>2 DEF Waiting
  <2>4. Ready' => Ready
    BY <1>3 DEF Ready
  <2>5. Ready' => barr'[k].c = N - Cardinality(Waiting(k)')
    BY <1>3, <2>3, <2>4 DEF InstOf
  <2> QED
    BY <1>i, <2>2, <2>5 DEF InstOf
<1>4. CASE go = 0 /\ barr' = [b \in Bars |-> [c |-> Width(b), sense |-> 0]]
  <2>1. barr'[k].c = N
    BY <1>1, <1>4 DEF Width
  <2>2. \A u \in Tids : ctx'[u] # k
    BY <1>1, <1>4, <1>i, NobodyYet
  <2>3. Waiting(k)' = {}
    BY <2>2 DEF Waiting
  <2>4. barr'[k].c = N - Cardinality(Waiting(k)')
    BY <2>1, <2>3, FS_EmptySet, Parameters
  <2> QED
    BY <2>2, <2>4 DEF InstOf
<1> QED
  BY <1>3, <1>4, <1>i

\* Roles change while nobody is in an instance, and all have passed the same
\* barriers in it.
LEMMA InstSetRole ==
  ASSUME TypeInv, ScriptInv, NEW R \in Nat, GlobalInv(R), NEW k \in Insts, InstOf(k),
         NEW t \in Tids, set_role(t)
  PROVE  InstOf(k)'
<1>z. zyva(t) /\ ~init_global(t)
  <2>1. zyva(t)
    BY DEF zyva
  <2>2. At(t, "set_role")
    BY DEF set_role, Op
  <2> QED
    BY <2>1, <2>2, Initialising
<1>0. At(t, "set_role") /\ Advance(t) /\ UNCHANGED <<cfg, nrun, s, spin, barr, go>>
  BY DEF set_role, Op, At, Advance, shared
<1> DEFINE h == nrun[t]
<1>1. h \in Nat /\ R = 2 * h + 1
  <2>1. R = 2 * nrun[t] + 1 /\ nrun[t] \in Nat
    BY <1>0, Parity
  <2> QED
    BY <2>1
<1> HIDE DEF h
<1>2. \A u \in Tids : InSetRole(u) /\ Begun(u) = h * size /\ Rem(u) = 0
  BY <1>1, OddRound
<1>3. \A u \in Tids : ~At(u, "sync")
  <2> TAKE u \in Tids
  <2>1. InSetRole(u)
    BY <1>2
  <2> QED
    BY <2>1, BarFacts, GlobalPlace
<1>4. PICK B \in Int : \A u \in Tids : Behind(u) = B
  <2>1. Syncs \in Int
    <3>1. 0 \in Nat /\ cfg \in Settings
      BY DEF TypeInv
    <3> QED
      BY <3>1, Barriers
  <2>2. h * size \in Int
    BY <1>1, Parameters
  <2>3. Syncs * (h * size) \in Int
    BY <2>1, <2>2
  <2> QED
    BY <1>2, <2>3 DEF Behind
<1>5. InSetRole(t)
  BY <1>2
<1>6. Behind(t)' = B /\ ~At(t, "sync")'
  <2>1. /\ todo'[t] \in {<<"set_role", "gsync">>, <<"gsync">>, <<>>}
        /\ Begun(t)' = Begun(t) /\ Rem(t)' = 0 /\ Rem(t) = 0
    BY <1>0, <1>5, AdvanceSetRole
  <2>2. Behind(t)' = Behind(t)
    BY <1>0, <2>1, SameScript DEF Behind
  <2>3. ~At(t, "sync")'
    BY <2>1, ShortScripts DEF At
  <2> QED
    BY <1>4, <2>2, <2>3
<1>7. \A u \in Tids : Behind(u)' = B /\ ~At(u, "sync")'
  <2>1. ASSUME NEW u \in Tids, u # t PROVE Behind(u)' = B /\ ~At(u, "sync")'
    BY <1>3, <1>4, <1>z, <2>1, StillThere
  <2> QED
    BY <1>6, <2>1
<1>8. \A u \in Tids : Round(B, u, "sync", Behind(u))'
  BY <1>7 DEF Round
<1>9. Waiting(k) = {} /\ Waiting(k)' = {}
  BY <1>3, <1>7 DEF Waiting
<1>10. Ready' => Ready
  BY <1>z, Moves DEF Ready
<1>11. Ready' => barr'[k].c = N - Cardinality(Waiting(k)')
  BY <1>0, <1>9, <1>10 DEF InstOf
<1> QED
  BY <1>4, <1>8, <1>11 DEF InstOf

LEMMA InstBarrier ==
  ASSUME TypeInv, ScriptInv, RowInv, NEW G0 \in Nat, GlobalInv(G0),
         NEW k \in Insts, InstOf(k),
         NEW t \in Tids, zyva(t), At(t, "sync"), ctx[t] = k
  PROVE  InstOf(k)'
<1>0. /\ barrier_wait(t) /\ Bar(t) = k /\ k \in Bars /\ Width(k) = N /\ AtBar(t) /\ InIteration(t)
      /\ ~set_role(t) /\ ~init_global(t)
  <2>1. barrier_wait(t) /\ Bar(t) = k /\ k \in Bars /\ Width(k) = N /\ AtBar(t) /\ InIteration(t)
    BY BarrierFirst, BarFacts DEF AtBar, Bars
  <2>2. ~set_role(t) /\ ~init_global(t)
    BY <2>1, Initialising DEF set_role, Op, At
  <2> QED
    BY <2>1, <2>2
<1>b. /\ barr[k].c \in Int /\ barr[k].sense \in {0, 1} /\ ms[t] \in {0, 1} /\ N \in Nat
  BY <1>0, Parameters DEF TypeInv
<1>1. \A u \in Tids : At(u, "sync") /\ ctx[u] = k => Bar(u) = k
  BY BarFacts
<1>2. t \in Members(k) /\ IsFiniteSet(Members(k)) /\ Cardinality(Members(k)) = N
  BY <1>0, CrewOf
<1>3. IsFiniteSet(Waiting(k)) /\ Cardinality(Waiting(k)) \in Nat /\ Waiting(k) \in SUBSET Members(k)
  <2>1. Waiting(k) \in SUBSET Members(k)
    BY DEF Waiting, Members
  <2> QED
    BY <1>2, <2>1, FS_Subset, FS_CardinalityType
<1>4. barr[k].c = N - Cardinality(Waiting(k))
  BY <1>0, Moves DEF InstOf, Ready
<1>5. PICK R \in Int : \A u \in Tids : ctx[u] = k => Round(R, u, "sync", Behind(u))
  BY DEF InstOf
<1>6. ASSUME NEW u \in Tids, u # t
      PROVE  /\ ctx'[u] = ctx[u] /\ (At(u, "sync")' <=> At(u, "sync")) /\ Behind(u)' = Behind(u)
             /\ spin'[u] = spin[u]
             /\ barr'[k].sense = barr[k].sense /\ At(u, "sync") /\ ctx[u] = k => (Waits(u)' <=> Waits(u))
  BY <1>1, <1>6, StillThere, WaitsElsewhere DEF Same
<1>7. Round(R, t, "sync", Behind(t))
  BY <1>5
<1>8. Behind(t)' = Behind(t) + One(Advance(t)) /\ ctx'[t] = k /\ UNCHANGED <<cfg, nrun, s, myrole>>
  <2>1. ctx[t] >= 0
    BY DEF Insts
  <2>2. One(At(t, "sync") /\ Advance(t)) = One(Advance(t))
    BY DEF One
  <2>3. UNCHANGED <<cfg, nrun, s, myrole>>
    BY <1>0, BarStep
  <2> QED
    BY <1>0, <2>1, <2>2, <2>3, Moves
\* The last arrival.
<1>9. CASE /\ ~spin[t] /\ barr[k].c = 1
           /\ barr'[k].c = N /\ barr'[k].sense # barr[k].sense
           /\ Advance(t) /\ ~spin'[t]
  <2>1. t \notin Waiting(k) /\ Behind(t) = R
    BY <1>7, <1>9 DEF Waiting, Waits, Round
  <2>2. Waiting(k) \cup {t} = Members(k)
    BY <1>2, <1>3, <1>4, <1>9, <2>1, LastOne
  <2>3. ASSUME NEW u \in Tids, u # t, ctx[u] = k
        PROVE  Behind(u) = R /\ At(u, "sync")' /\ spin'[u] /\ ~Waits(u)'
    <3>1. At(u, "sync") /\ Waits(u)
      BY <2>2, <2>3 DEF Waiting, Members
    <3>2. Behind(u) = R
      BY <1>5, <2>3, <3>1 DEF Round
    <3>3. At(u, "sync")' /\ spin'[u]
      BY <1>6, <2>3, <3>1 DEF Waits
    <3>4. Bar(u)' = k /\ ms'[u] = ms[u] /\ ms[u] = barr[k].sense
      BY <1>1, <2>3, <3>1, StillThere, WaitsElsewhere DEF Waits, Same
    <3>5. ~Waits(u)'
      BY <1>9, <3>4 DEF Waits
    <3> QED
      BY <3>2, <3>3, <3>5
  <2>4. \A u \in Tids : ctx'[u] = k => Round(R + 1, u, "sync", Behind(u))'
    <3>1. Behind(t)' = R + 1
      BY <1>8, <1>9, <2>1 DEF One
    <3>2. Round(R + 1, t, "sync", Behind(t))'
      BY <1>9, <3>1 DEF Round
    <3>3. ASSUME NEW u \in Tids, u # t, ctx'[u] = k PROVE Round(R + 1, u, "sync", Behind(u))'
      BY <1>6, <2>3, <3>3 DEF Round
    <3> QED
      BY <3>2, <3>3
  <2>5. Waiting(k)' = {}
    BY <1>6, <1>9, <2>3 DEF Waiting, Waits
  <2>6. barr'[k].c = N - Cardinality(Waiting(k)')
    BY <1>9, <1>b, <2>5, FS_EmptySet
  <2>7. R + 1 \in Int
    OBVIOUS
  <2> QED
    BY <2>4, <2>6, <2>7 DEF InstOf
\* Another arrival.
<1>10. CASE /\ ~spin[t] /\ barr[k].c # 1
            /\ barr'[k].c = barr[k].c - 1 /\ barr'[k].sense = barr[k].sense
            /\ todo' = todo /\ spin'[t] /\ ms'[t] = barr[k].sense
  <2>1. t \notin Waiting(k) /\ Behind(t) = R
    BY <1>7, <1>10 DEF Waiting, Waits, Round
  <2>2. At(t, "sync")' /\ Waits(t)' /\ Behind(t)' = Behind(t)
    <3>1. At(t, "sync")' /\ Bar(t)' = k
      <4>1. ~At(t, "gsync")
        BY BarFacts
      <4> QED
        BY <1>8, <1>10, <4>1 DEF At, Bar
    <3>2. Waits(t)'
      BY <1>10, <3>1 DEF Waits
    <3>3. Behind(t)' = Behind(t)
      BY <1>8, <1>10, Elsewhere
    <3> QED
      BY <3>1, <3>2, <3>3
  <2>3. Waiting(k)' = Waiting(k) \cup {t}
    BY <1>6, <1>8, <1>10, <2>2 DEF Waiting
  <2>4. barr'[k].c = N - Cardinality(Waiting(k)')
    BY <1>3, <1>4, <1>10, <1>b, <2>1, <2>3, OneMore
  <2>5. ASSUME NEW u \in Tids, ctx'[u] = k PROVE Round(R, u, "sync", Behind(u))'
    <3>1. CASE u = t
      BY <2>1, <2>2, <3>1 DEF Round
    <3>2. CASE u # t
      <4>1. Round(R, u, "sync", Behind(u))
        BY <1>5, <1>6, <2>5, <3>2
      <4> QED
        BY <1>6, <1>10, <2>5, <3>2, <4>1 DEF Round
    <3> QED
      BY <3>1, <3>2
  <2> QED
    BY <2>4, <2>5 DEF InstOf
\* The exit.
<1>11. CASE /\ spin[t] /\ ~Waits(t) /\ barr' = barr /\ Advance(t) /\ ~spin'[t]
  <2>1. t \notin Waiting(k) /\ Behind(t) = R - 1
    BY <1>7, <1>11 DEF Waiting, Round
  <2>2. Waiting(k)' = Waiting(k)
    BY <1>6, <1>11, <2>1 DEF Waiting, Waits
  <2>3. Behind(t)' = R
    BY <1>8, <1>11, <2>1 DEF One
  <2>4. ASSUME NEW u \in Tids, ctx'[u] = k PROVE Round(R, u, "sync", Behind(u))'
    <3>1. CASE u = t
      BY <1>11, <2>3, <3>1 DEF Round
    <3>2. CASE u # t
      <4>1. Round(R, u, "sync", Behind(u))
        BY <1>5, <1>6, <2>4, <3>2
      <4> QED
        BY <1>6, <1>11, <2>4, <3>2, <4>1 DEF Round
    <3> QED
      BY <3>1, <3>2
  <2>5. barr'[k].c = N - Cardinality(Waiting(k)')
    BY <1>4, <1>11, <2>2
  <2> QED
    BY <2>4, <2>5 DEF InstOf
<1> QED
  BY <1>0, <1>9, <1>10, <1>11, BarStep

LEMMA StepInst ==
  ASSUME TypeInv, ScriptInv, RowInv, NEW R \in Nat, GlobalInv(R), InstInv,
         NEW t \in Tids, zyva(t)
  PROVE  InstInv'
<1> SUFFICES ASSUME NEW k \in Insts PROVE InstOf(k)'
  BY DEF InstInv
<1>1. InstOf(k)
  BY DEF InstInv
<1> QED
  BY <1>1, InstQuiet, InstStart, InstSetRole, InstBarrier

-----------------------------------------------------------------------------
(***************************************************************************)
(* What the threads have written.                                          *)
(***************************************************************************)
DataOf(t, what) ==
  /\ ctx[t] >= 0 /\ (what = "final" => cfg.finals)
  /\ Latest(t, what) > Base(Held(t))
  => data[ctx[t]][what][myrole[t]] = Latest(t, what)

\* A thread that takes its role has written nothing with it.
LEMMA NewRole ==
  ASSUME TypeInv, ScriptInv, NEW t \in Tids, set_role(t)
  PROVE  /\ ~InIteration(t)'
         /\ \A w : Latest(t, w)' = Base(Held(t))'
<1>1. Advance(t) /\ At(t, "set_role") /\ UNCHANGED <<cfg, nrun, s>>
  BY DEF set_role, Op, At, Advance, shared
<1>2. InSetRole(t) /\ Starts(t) = nrun[t] + 1 /\ Begun(t) = nrun[t] * size /\ (Fixed => nrun[t] = 0)
      /\ nrun[t] \in 0 .. nruns - 1
  BY <1>1, GlobalPlace DEF At
<1>3. ~InIteration(t)' /\ Begun(t)' = Begun(t) /\ Held(t)' = Starts(t)
  BY <1>1, <1>2, AdvanceSetRole
<1>4. \A w : Latest(t, w)' = nrun[t] * size
  <2>1. nrun[t] * size \in Int
    BY <1>2, Parameters
  <2> QED
    BY <1>2, <1>3, <2>1 DEF Latest, One
<1>5. Base(Held(t))' = nrun[t] * size
  <2>1. Fixed' <=> Fixed
    BY <1>1, SameScript
  <2>2. Held(t)' - 1 = nrun[t]
    BY <1>2, <1>3
  <2>3. Fixed => nrun[t] * size = 0
    BY <1>2, Parameters
  <2> QED
    BY <2>1, <2>2, <2>3 DEF Base
<1> QED
  BY <1>3, <1>4, <1>5

LEMMA StepData ==
  ASSUME TypeInv, ScriptInv, RowInv, NEW R \in Nat, GlobalInv(R), DataInv,
         NEW t \in Tids, zyva(t)
  PROVE  DataInv'
<1>a. cfg' = cfg /\ draws' = draws
  BY Frame
<1>d. \A u \in Tids, w \in Kinds : DataOf(u, w)
  BY DEF DataInv, DataOf
\* Where neither the role nor what it has written changes.
<1>s. ASSUME NEW u \in Tids, NEW w \in Kinds, ctx'[u] = ctx[u], myrole'[u] = myrole[u],
             Held(u)' = Held(u), ctx[u] >= 0 => Latest(u, w)' = Latest(u, w),
             ctx[u] >= 0 => data'[ctx[u]][w][myrole[u]] = data[ctx[u]][w][myrole[u]]
      PROVE  DataOf(u, w)'
  <2>1. Base(Held(u))' = Base(Held(u))
    BY <1>a, <1>s DEF Base, Fixed
  <2> QED
    BY <1>a, <1>d, <1>s, <2>1 DEF DataOf
<1>1. CASE ~Write(t)
  <2>1. data' = data
    BY <1>1 DEF zyva, init_global, barrier_wait, set_role, Loop, Timebase, Record
  <2>2. ASSUME NEW u \in Tids, NEW w \in Kinds, u # t PROVE DataOf(u, w)'
    <3>1. ctx'[u] = ctx[u] /\ myrole'[u] = myrole[u] /\ Held(u)' = Held(u) /\ Latest(u, w)' = Latest(u, w)
      BY <2>2, StillThere DEF Same
    <3> QED
      BY <1>s, <2>1, <3>1
  <2>3. ASSUME NEW w \in Kinds, ~set_role(t), w = "final" => cfg.finals PROVE DataOf(t, w)'
    <3>1. ctx'[t] = ctx[t] /\ myrole'[t] = myrole[t] /\ Held(t)' = Held(t)
      BY <2>3, Moves
    <3>2. w \in Steps /\ ~At(t, w)
      <4>1. w \in Steps
        BY DEF Steps
      <4>2. ASSUME At(t, w) PROVE FALSE
        <5>1. ~AtBar(t) /\ InIteration(t)
          BY <4>1, <4>2, Within
        <5>2. ~barrier_wait(t) /\ ~init_global(t) /\ ~Loop(t)
          BY <4>2, <5>1, Initialising, BarStep DEF Loop, At
        <5>3. ~Timebase(t) /\ ~Record(t)
          BY <4>2 DEF Timebase, Record, Op, At, Kinds
        <5> QED
          BY <1>1, <2>3, <5>2, <5>3 DEF zyva
      <4> QED
        BY <4>1, <4>2
    <3>3. ctx[t] >= 0 => Latest(t, w)' = Latest(t, w)
      BY <2>3, <3>2, Moves
    <3> QED
      BY <1>s, <2>1, <3>1, <3>3
  <2>4. ASSUME NEW w \in Kinds, ~(w = "final" => cfg.finals) PROVE DataOf(t, w)'
    BY <1>a, <2>4 DEF DataOf
  <2>5. ASSUME NEW w \in Kinds, set_role(t) PROVE DataOf(t, w)'
    <3>1. Latest(t, w)' = Base(Held(t))'
      BY <2>5, NewRole
    <3>2. Latest(t, w)' \in Int
      <4>1. UNCHANGED <<nrun, s>>
        BY <2>5 DEF set_role
      <4>2. Begun(t)' \in Int
        BY <4>1, Nows DEF Begun, Now
      <4> QED
        BY <4>2 DEF Latest, One
    <3> QED
      BY <3>1, <3>2 DEF DataOf
  <2> QED
    BY <2>2, <2>3, <2>4, <2>5 DEF DataInv, DataOf
<1>2. CASE Write(t)
  <2>1. PICK what \in Kinds : Op(t, what) /\ data' = [data EXCEPT ![ctx[t]][what][myrole[t]] = Now(t)]
    BY <1>2 DEF Write
  <2>2. what \in Steps /\ At(t, what)
    BY <2>1 DEF Steps, Op
  <2>3. InIteration(t) /\ ctx[t] \in Insts /\ myrole[t] \in Roles /\ ~set_role(t)
    <3>1. ~set_role(t)
      BY <2>2 DEF set_role, Op, At, Kinds
    <3> QED
      BY <2>2, <3>1, Within
  <2>4. ctx'[t] = ctx[t] /\ myrole'[t] = myrole[t] /\ Held(t)' = Held(t)
    BY <2>3, Moves
  <2>5. data'[ctx[t]][what][myrole[t]] = Now(t)
    BY <2>1, <2>3 DEF TypeInv
  <2>6. ASSUME NEW k \in Insts, NEW w \in Kinds, NEW r \in Roles,
               ~(k = ctx[t] /\ w = what /\ r = myrole[t])
        PROVE  data'[k][w][r] = data[k][w][r]
    BY <2>1, <2>3, <2>6 DEF TypeInv
  <2>7. ASSUME NEW w \in Kinds PROVE DataOf(t, w)'
    <3>1. CASE w = what
      <4>1. CASE w = "final" => cfg.finals
        <5>1. ctx[t] >= 0
          BY <2>3 DEF Insts
        <5>2. Latest(t, w)' = Now(t)
          BY <2>2, <2>3, <3>1, <4>1, <5>1, Moves
        <5> QED
          BY <2>4, <2>5, <3>1, <5>2 DEF DataOf
      <4> QED
        BY <1>a, <4>1 DEF DataOf
    <3>2. CASE w # what
      <4>1. CASE w = "final" => cfg.finals
        <5>1. ctx[t] >= 0 /\ ~At(t, w) /\ w \in Steps
          BY <2>2, <2>3, <3>2 DEF Insts, At, Steps
        <5>2. Latest(t, w)' = Latest(t, w)
          BY <2>3, <4>1, <5>1, Moves
        <5>3. data'[ctx[t]][w][myrole[t]] = data[ctx[t]][w][myrole[t]]
          BY <2>3, <2>6, <3>2
        <5> QED
          BY <1>s, <2>4, <5>2, <5>3
      <4> QED
        BY <1>a, <4>1 DEF DataOf
    <3> QED
      BY <3>1, <3>2
  <2>8. ASSUME NEW u \in Tids, NEW w \in Kinds, u # t PROVE DataOf(u, w)'
    <3>1. ctx'[u] = ctx[u] /\ myrole'[u] = myrole[u] /\ Held(u)' = Held(u) /\ Latest(u, w)' = Latest(u, w)
      BY <2>8, StillThere DEF Same
    <3>2. ctx[u] >= 0 => ctx[u] \in Insts /\ myrole[u] \in Roles
      <4>1. ctx[u] \in -1 .. NEXE - 1 /\ myrole[u] \in -1 .. N - 1
        BY DEF TypeInv
      <4>2. ctx[u] >= 0 <=> myrole[u] >= 0
        BY DEF ScriptInv, ScriptOf
      <4> QED
        BY <4>1, <4>2, Parameters DEF Insts, Roles
    <3>3. ctx[u] = ctx[t] => myrole[u] # myrole[t]
      BY <2>3, <2>8, CrewOf DEF Members
    <3>4. ctx[u] >= 0 => data'[ctx[u]][w][myrole[u]] = data[ctx[u]][w][myrole[u]]
      BY <2>6, <3>2, <3>3
    <3> QED
      BY <1>s, <3>1, <3>4
  <2> QED
    BY <2>7, <2>8 DEF DataInv, DataOf
<1> QED
  BY <1>1, <1>2

-----------------------------------------------------------------------------
(***************************************************************************)
(* The crew of an instance advances together.                              *)
(***************************************************************************)
\* A thread that has passed the first barrier of its iteration, and those of
\* its crew: in the same iteration, past the same barriers or in the last of
\* them; or, when it has passed them all, at the beginning of the next one.
LEMMA Companions ==
  ASSUME TypeInv, ScriptInv, NEW k \in Insts, InstOf(k),
         NEW t \in Tids, InIteration(t), ctx[t] = k, ~spin[t], Passed(Pos(t)) >= 1,
         NEW u \in Tids, ctx[u] = k
  PROVE  \/ /\ InIteration(u) /\ Now(u) = Now(t)
            /\ \/ Passed(Pos(u)) = Passed(Pos(t))
               \/ At(u, "sync") /\ Passed(Pos(u)) + 1 = Passed(Pos(t))
         \/ /\ Passed(Pos(t)) = Syncs
            /\ \/ InIteration(u) /\ Now(u) = Now(t) + 1 /\ Passed(Pos(u)) = 0
               \/ ~InIteration(u) /\ Begun(u) = Now(t)
<1>1. PICK R \in Int : \A v \in Tids : ctx[v] = k => Round(R, v, "sync", Behind(v))
  BY DEF InstOf
<1>2. cfg \in Settings
  BY DEF TypeInv
<1>3. Syncs \in 4 .. 7 /\ Syncs \in Int
  <2>1. 0 \in Nat
    OBVIOUS
  <2> QED
    BY <1>2, <2>1, Barriers
<1>4. ASSUME NEW v \in Tids, InIteration(v)
      PROVE  /\ Pos(v) \in Nat /\ Passed(Pos(v)) \in 0 .. Syncs /\ Rem(v) = Syncs - Passed(Pos(v))
             /\ At(v, "sync") => Passed(Pos(v)) < Syncs
             /\ Begun(v) = Now(v)
  <2>1. Pos(v) \in Nat /\ (todo[v] # <<>> => OpAt(Pos(v) + 1, Head(todo[v])))
    BY <1>4, Stands
  <2>2. Passed(Pos(v)) \in 0 .. Syncs
    BY <1>2, <2>1, Barriers
  <2>3. At(v, "sync") => Passed(Pos(v)) < Syncs
    <3> SUFFICES ASSUME At(v, "sync") PROVE Passed(Pos(v)) < Syncs
      OBVIOUS
    <3>1. OpAt(Pos(v) + 1, "sync")
      BY <2>1 DEF At
    <3>2. Passed(Pos(v) + 1) = Passed(Pos(v)) + One("sync" = "sync")
      BY <1>2, <2>1, <3>1, Barriers
    <3>3. Passed(Pos(v) + 1) \in 0 .. Syncs
      <4>1. Pos(v) + 1 \in Nat
        BY <2>1
      <4> QED
        BY <1>2, <4>1, Barriers
    <3> QED
      BY <1>3, <2>2, <3>2, <3>3 DEF One
  <2>4. Begun(v) = Now(v)
    <3>1. ~(nrun[v] >= nruns)
      BY <1>4, Nows, Parameters DEF InIteration, Running
    <3> QED
      BY <3>1 DEF Begun
  <2> QED
    BY <1>4, <2>1, <2>2, <2>3, <2>4 DEF Rem
<1> DEFINE late == At(u, "sync") /\ spin[u] /\ ~Waits(u)
           d == IF late THEN 1 ELSE 0
           x == Rem(t)
           y == Rem(u)
<1>5. /\ x \in 0 .. Syncs /\ x < Syncs /\ x = Syncs - Passed(Pos(t)) /\ Begun(t) = Now(t)
      /\ Passed(Pos(t)) \in Int
  BY <1>3, <1>4
<1>6. y \in 0 .. Syncs
  <2>1. CASE InIteration(u)
    BY <1>3, <1>4, <2>1
  <2>2. CASE ~InIteration(u)
    BY <1>3, <2>2 DEF Rem
  <2> QED
    BY <2>1, <2>2
<1>7. Begun(t) \in Int /\ Begun(u) \in Int /\ Now(t) \in Int /\ Now(u) \in Int
  BY Nows
<1>8. Syncs * Begun(u) - y = Syncs * Begun(t) - x - d
  <2>1. Behind(t) = R /\ Behind(u) = (IF late THEN R - 1 ELSE R)
    BY <1>1 DEF Round
  <2>2. Syncs * Begun(u) \in Int /\ Syncs * Begun(t) \in Int
    BY <1>3, <1>7
  <2>3. Behind(t) = Syncs * Begun(t) - x /\ Behind(u) = Syncs * Begun(u) - y
    BY DEF Behind
  <2> HIDE DEF x, y
  <2> QED
    BY <1>5, <1>6, <2>1, <2>2, <2>3
<1>9. d \in {0, 1} /\ (d = 1 => At(u, "sync"))
  OBVIOUS
<1> HIDE DEF x, y, d
<1>10. \/ Begun(u) = Begun(t) /\ y = x + d
       \/ Begun(u) = Begun(t) + 1 /\ x = 0 /\ y = Syncs /\ d = 0
       \/ Begun(u) = Begun(t) - 1 /\ x + d = y + Syncs
  <2>1. Syncs \in 4 .. 7 /\ Begun(t) \in Int /\ Begun(u) \in Int /\ x \in 0 .. Syncs /\ y \in 0 .. Syncs
        /\ d \in {0, 1}
    BY <1>3, <1>5, <1>6, <1>7, <1>9
  <2>2. CASE Syncs = 4
    BY <1>8, <2>1, <2>2
  <2>3. CASE Syncs = 5
    BY <1>8, <2>1, <2>3
  <2>4. CASE Syncs = 6
    BY <1>8, <2>1, <2>4
  <2>5. CASE Syncs = 7
    BY <1>8, <2>1, <2>5
  <2> QED
    BY <2>1, <2>2, <2>3, <2>4, <2>5
<1>11. CASE InIteration(u)
  <2>1. /\ Passed(Pos(u)) \in 0 .. Syncs /\ y = Syncs - Passed(Pos(u)) /\ Begun(u) = Now(u)
        /\ At(u, "sync") => Passed(Pos(u)) < Syncs
    BY <1>11, <1>4 DEF y
  <2> QED
    BY <1>3, <1>5, <1>6, <1>7, <1>9, <1>10, <1>11, <2>1
<1>12. CASE ~InIteration(u)
  <2>1. y = 0 /\ ~At(u, "sync")
    BY <1>12, BarFacts DEF Rem, y
  <2> QED
    BY <1>3, <1>5, <1>7, <1>9, <1>10, <1>12, <2>1
<1> QED
  BY <1>11, <1>12

\* A thread in an iteration after a step of its own.
LEMMA IterationStep ==
  ASSUME TypeInv, ScriptInv, NEW t \in Tids, zyva(t), InIteration(t)'
  PROVE  /\ ctx'[t] = ctx[t]
         /\ \/ Loop(t) /\ Pos(t)' = 0
            \/ InIteration(t) /\ Now(t)' = Now(t) /\ Pos(t)' = Pos(t) /\ barrier_wait(t)
            \/ InIteration(t) /\ Now(t)' = Now(t) /\ Pos(t)' = Pos(t) + 1 /\ Advance(t) /\ ~Loop(t)
<1>1. CASE init_global(t)
  <2>1. nrun'[t] = -1
    BY <1>1, Initialising
  <2> QED
    BY <2>1 DEF InIteration, Running
<1>2. CASE set_role(t)
  BY <1>2, NewRole
<1>3. CASE Loop(t)
  BY <1>3, LoopStep DEF Loop
<1>4. ASSUME Advance(t), UNCHANGED <<cfg, nrun, s, myrole>>
      PROVE  InIteration(t) /\ Now(t)' = Now(t) /\ Pos(t)' = Pos(t) + 1
  <2>1. ~InSetRole(t)
    BY <1>4, AdvanceSetRole
  <2>2. InIteration(t)
    BY <1>4 DEF InIteration, Running
  <2> QED
    BY <1>4, <2>2, AdvanceIteration
<1>5. CASE barrier_wait(t)
  <2>1. UNCHANGED <<cfg, nrun, s, ctx, myrole>> /\ (Advance(t) \/ todo' = todo) /\ AtBar(t)
    BY <1>5, BarStep
  <2>2. ~Loop(t)
    BY <2>1 DEF Loop, AtBar, At
  <2>3. CASE Advance(t)
    BY <1>4, <2>1, <2>2, <2>3
  <2>4. CASE todo' = todo
    BY <1>5, <2>1, <2>4, Elsewhere
  <2> QED
    BY <2>1, <2>3, <2>4
<1>6. CASE Write(t) \/ Timebase(t) \/ Record(t)
  <2>1. UNCHANGED <<cfg, nrun, s, ctx, myrole>> /\ Advance(t)
    BY <1>6, Working DEF shared
  <2>2. ~Loop(t)
    BY <2>1 DEF Loop, Advance
  <2> QED
    BY <1>4, <2>1, <2>2
<1> QED
  BY <1>1, <1>2, <1>3, <1>5, <1>6 DEF zyva

\* The barriers before and after the readings of the time base.
LEMMA AroundTimebase ==
  ASSUME cfg \in Settings
  PROVE  /\ Where("tb") \in Nat /\ Where("tb0") = Where("tb") + 2
         /\ Passed(Where("tb")) >= 1 /\ Passed(Where("tb")) < Syncs
         /\ \A p \in Nat : Passed(p) <= Passed(Where("tb")) => p <= Where("tb0")
<1>1. G \in {0, 1} /\ C \in {0, 1} /\ F \in {0, 1}
  BY Flags
<1>2. Where("tb") = 5 + G + C /\ Where("tb0") = 7 + G + C
  BY DEF Where
<1>3. Passed(5 + G + C) = 2 + G + C
  BY <1>1 DEF Passed, One
<1>4. ASSUME NEW p \in Nat, p > 7 + G + C PROVE Passed(p) >= 3 + G + C
  BY <1>1, <1>4 DEF Passed, One
<1>5. \A p \in Nat : Passed(p) \in Int
  <2> TAKE p \in Nat
  <2>1. Passed(p) \in 0 .. Syncs /\ Syncs \in Nat
    BY Barriers
  <2> QED
    BY <2>1
<1>6. ASSUME NEW p \in Nat, Passed(p) <= 2 + G + C PROVE p <= 7 + G + C
  BY <1>1, <1>4, <1>5, <1>6
<1> QED
  BY <1>1, <1>2, <1>3, <1>6 DEF Syncs

TimeOf(t) ==
  InIteration(t) =>
    /\ Pos(t) > Where("tb") => next_tb[ctx[t]][2] = Now(t)
    /\ Pos(t) > Where("tb0") => tb0[t] = next_tb[ctx[t]]

LEMMA StepTime ==
  ASSUME TypeInv, ScriptInv, InstInv, TimeInv, NEW t \in Tids, zyva(t)
  PROVE  TimeInv'
<1>0. cfg \in Settings /\ cfg' = cfg
  BY Frame DEF TypeInv
<1>a. /\ Where("tb") \in Nat /\ Where("tb0") = Where("tb") + 2
      /\ Passed(Where("tb")) >= 1 /\ Passed(Where("tb")) < Syncs
      /\ \A p \in Nat : Passed(p) <= Passed(Where("tb")) => p <= Where("tb0")
      /\ Where("tb")' = Where("tb") /\ Where("tb0")' = Where("tb0")
  BY <1>0, AroundTimebase, SameScript
<1>b. \A u \in Tids : TimeOf(u)
  BY DEF TimeInv, TimeOf
<1>p. \A u \in Tids : InIteration(u) => Pos(u) \in Nat /\ ctx[u] \in Insts
  BY Stands
\* The position advances past a reading only where it is made.
<1>c. ASSUME InIteration(t)', NEW w \in {"tb", "tb0"}, Pos(t)' > Where(w), ~At(t, w)
      PROVE  InIteration(t) /\ Now(t)' = Now(t) /\ Pos(t) > Where(w) /\ ctx'[t] = ctx[t]
  <2>1. Where(w) \in Nat
    BY <1>a
  <2>2. CASE Loop(t) /\ Pos(t)' = 0
    BY <1>c, <2>1, <2>2
  <2>3. CASE InIteration(t) /\ Now(t)' = Now(t) /\ Pos(t)' = Pos(t)
    BY <1>c, <2>3, IterationStep
  <2>4. CASE InIteration(t) /\ Now(t)' = Now(t) /\ Pos(t)' = Pos(t) + 1 /\ Advance(t)
    <3>1. Pos(t) \in Nat /\ OpAt(Pos(t) + 1, Head(todo[t])) /\ todo[t] # <<>>
      BY <2>4, Stands DEF Advance
    <3>2. w \in Steps /\ w # "final"
      BY DEF Steps
    <3>3. Head(todo[t]) = w <=> Pos(t) = Where(w)
      BY <1>0, <3>1, <3>2, Places
    <3>4. Pos(t) # Where(w)
      BY <1>c, <3>1, <3>3 DEF At
    <3> QED
      BY <1>c, <2>1, <2>4, <3>1, <3>4, IterationStep
  <2> QED
    BY <1>c, <2>2, <2>3, <2>4, IterationStep
<1>1. CASE ~Timebase(t)
  <2>1. next_tb' = next_tb /\ tb0' = tb0
    BY <1>1 DEF zyva, init_global, barrier_wait, set_role, Loop, Write, Record
  <2>2. ASSUME NEW u \in Tids, u # t PROVE TimeOf(u)'
    <3>1. (InIteration(u)' <=> InIteration(u)) /\ Now(u)' = Now(u) /\ Pos(u)' = Pos(u) /\ ctx'[u] = ctx[u]
      BY <2>2, StillThere DEF Same
    <3> QED
      BY <1>a, <1>b, <2>1, <3>1 DEF TimeOf
  <2>3. (~At(t, "tb") /\ ~At(t, "tb0")) \/ ~InIteration(t)'
    <3> SUFFICES ASSUME NEW w \in {"tb", "tb0"}, At(t, w) PROVE FALSE
      OBVIOUS
    <3>1. w \in Steps
      BY DEF Steps
    <3>2. ~AtBar(t) /\ ~barrier_wait(t) /\ ~init_global(t)
      BY <3>1, Within, Initialising, BarStep
    <3>3. ~Loop(t) /\ ~set_role(t) /\ ~Record(t) /\ ~Write(t)
      BY DEF Loop, set_role, Record, Write, Op, At, Kinds
    <3> QED
      BY <1>1, <3>2, <3>3 DEF zyva
  <2>4. TimeOf(t)'
    <3> SUFFICES ASSUME InIteration(t)'
                 PROVE  /\ (Pos(t) > Where("tb") => next_tb[ctx[t]][2] = Now(t))'
                        /\ (Pos(t) > Where("tb0") => tb0[t] = next_tb[ctx[t]])'
      BY DEF TimeOf
    <3>1. Pos(t)' > Where("tb") => next_tb'[ctx'[t]][2] = Now(t)'
      BY <1>b, <1>c, <2>1, <2>3 DEF TimeOf
    <3>2. Pos(t)' > Where("tb0") => tb0'[t] = next_tb'[ctx'[t]]
      BY <1>b, <1>c, <2>1, <2>3 DEF TimeOf
    <3> QED
      BY <1>a, <3>1, <3>2
  <2> QED
    BY <2>2, <2>4 DEF TimeInv, TimeOf
<1>2. ASSUME Timebase(t), NEW w \in {"tb", "tb0"}, At(t, w)
      PROVE  /\ InIteration(t) /\ ctx[t] \in Insts /\ ctx' = ctx /\ ~spin[t]
             /\ Pos(t) = Where(w) /\ Pos(t)' = Pos(t) + 1 /\ Now(t)' = Now(t) /\ Pos(t) \in Nat
  <2>1. /\ Advance(t) /\ InIteration(t) /\ ctx[t] \in Insts /\ UNCHANGED <<cfg, nrun, s, ctx, myrole>> /\ ~spin[t]
    BY <1>2, Working DEF shared
  <2>2. Pos(t) \in Nat /\ OpAt(Pos(t) + 1, w)
    <3>1. todo[t] # <<>> /\ Head(todo[t]) = w
      BY <1>2 DEF At
    <3> QED
      BY <2>1, <3>1, Stands
  <2>3. Pos(t) = Where(w)
    <3>1. w \in Steps /\ w # "final"
      BY DEF Steps
    <3> QED
      BY <1>0, <2>2, <3>1, Places
  <2> QED
    BY <2>1, <2>2, <2>3, AdvanceIteration
<1>3. CASE Timebase(t) /\ Op(t, "tb0") /\ next_tb' = next_tb /\ tb0' = [tb0 EXCEPT ![t] = next_tb[ctx[t]]]
  <2>1. At(t, "tb0")
    BY <1>3 DEF Op
  <2>2. /\ InIteration(t) /\ ctx' = ctx /\ Pos(t) = Where("tb0") /\ Now(t)' = Now(t)
    BY <1>2, <1>3, <2>1
  <2>3. next_tb[ctx[t]][2] = Now(t)
    BY <1>a, <1>b, <2>2 DEF TimeOf
  <2>4. tb0'[t] = next_tb[ctx[t]] /\ \A u \in Tids \ {t} : tb0'[u] = tb0[u]
    BY <1>3 DEF TypeInv
  <2>5. TimeOf(t)'
    BY <1>3, <2>2, <2>3, <2>4 DEF TimeOf
  <2>6. ASSUME NEW u \in Tids, u # t PROVE TimeOf(u)'
    <3>1. (InIteration(u)' <=> InIteration(u)) /\ Now(u)' = Now(u) /\ Pos(u)' = Pos(u) /\ ctx'[u] = ctx[u]
      BY <2>6, StillThere DEF Same
    <3> QED
      BY <1>3, <1>a, <1>b, <2>4, <2>6, <3>1 DEF TimeOf
  <2> QED
    BY <2>5, <2>6 DEF TimeInv, TimeOf
<1>4. CASE /\ Timebase(t) /\ Op(t, "tb") /\ tb0' = tb0
           /\ next_tb' = [next_tb EXCEPT ![ctx[t]] = <<myrole[t], Now(t)>>]
  <2>1. At(t, "tb")
    BY <1>4 DEF Op
  <2>2. /\ InIteration(t) /\ ctx[t] \in Insts /\ ctx' = ctx /\ ~spin[t]
        /\ Pos(t) = Where("tb") /\ Pos(t)' = Pos(t) + 1 /\ Now(t)' = Now(t)
    BY <1>2, <1>4, <2>1
  <2>3. /\ next_tb'[ctx[t]][2] = Now(t)
        /\ \A k \in Insts : k # ctx[t] => next_tb'[k] = next_tb[k]
    BY <1>4, <2>2 DEF TypeInv
  <2>4. TimeOf(t)'
    BY <1>a, <2>2, <2>3 DEF TimeOf
  <2>5. ASSUME NEW u \in Tids, u # t PROVE TimeOf(u)'
    <3>1. (InIteration(u)' <=> InIteration(u)) /\ Now(u)' = Now(u) /\ Pos(u)' = Pos(u) /\ ctx'[u] = ctx[u]
      BY <2>5, StillThere DEF Same
    <3>2. CASE ~InIteration(u)
      BY <3>1, <3>2 DEF TimeOf
    <3>3. CASE InIteration(u) /\ ctx[u] # ctx[t]
      <4>1. next_tb'[ctx[u]] = next_tb[ctx[u]]
        BY <1>p, <2>3, <3>3
      <4> QED
        BY <1>4, <1>a, <1>b, <3>1, <3>3, <4>1 DEF TimeOf
    <3>4. CASE InIteration(u) /\ ctx[u] = ctx[t]
      <4>1. /\ Now(u) = Now(t)
            /\ \/ Passed(Pos(u)) = Passed(Pos(t))
               \/ Passed(Pos(u)) + 1 = Passed(Pos(t))
        <5>1. Passed(Pos(t)) >= 1 /\ Passed(Pos(t)) # Syncs
          <6>1. Passed(Where("tb")) \in 0 .. Syncs /\ Syncs \in Nat
            BY <1>0, <1>a, Barriers
          <6> QED
            BY <1>a, <2>2, <6>1
        <5>2. InstOf(ctx[t])
          BY <2>2 DEF InstInv
        <5> QED
          BY <2>2, <3>4, <5>1, <5>2, Companions
      <4>2. Pos(u) <= Where("tb0")
        <5>1. Pos(u) \in Nat
          BY <1>p, <3>4
        <5>2. Passed(Pos(u)) \in Int /\ Passed(Where("tb")) \in Int
          <6>1. Passed(Where("tb")) \in 0 .. Syncs /\ Passed(Pos(u)) \in 0 .. Syncs /\ Syncs \in Nat
            BY <1>0, <1>a, <5>1, Barriers
          <6> QED
            BY <6>1
        <5>3. Passed(Pos(u)) <= Passed(Where("tb"))
          BY <2>2, <4>1, <5>2
        <5> QED
          BY <1>a, <5>1, <5>3
      <4>3. ~(Pos(u)' > Where("tb0")')
        BY <1>a, <1>p, <3>1, <3>4, <4>2
      <4> QED
        BY <2>3, <3>1, <3>4, <4>1, <4>3 DEF TimeOf
    <3> QED
      BY <3>2, <3>3, <3>4
  <2> QED
    BY <2>4, <2>5 DEF TimeInv, TimeOf
<1> QED
  BY <1>1, <1>3, <1>4 DEF Timebase

-----------------------------------------------------------------------------
(***************************************************************************)
(* The outcomes that are counted.                                          *)
(***************************************************************************)
LEMMA Actives ==
  ASSUME NEW k
  PROVE  /\ Active(k) \subseteq 0 .. nruns - 1 /\ IsFiniteSet(Active(k))
         /\ \A h : IsFiniteSet({r \in Active(k) : ~Fixed /\ r < h})
         /\ \A h : Past(k, h) \in Int
<1>1. Active(k) \subseteq 0 .. nruns - 1
  BY DEF Active
<1>2. IsFiniteSet(0 .. nruns - 1)
  BY Parameters, FS_Interval
<1>3. IsFiniteSet(Active(k))
  BY <1>1, <1>2, FS_Subset
<1>4. ASSUME NEW h PROVE IsFiniteSet({r \in Active(k) : ~Fixed /\ r < h}) /\ Past(k, h) \in Int
  <2> DEFINE A == {r \in Active(k) : ~Fixed /\ r < h}
  <2>1. A \subseteq Active(k)
    OBVIOUS
  <2>2. IsFiniteSet(A)
    BY <1>3, <2>1, FS_Subset
  <2>3. Cardinality(A) \in Nat
    BY <2>2, FS_CardinalityType
  <2>4. Past(k, h) = size * Cardinality(A)
    BY DEF Past
  <2> HIDE DEF A
  <2>5. Past(k, h) \in Int
    BY <2>3, <2>4, Parameters
  <2> QED
    BY <2>2, <2>5 DEF A
<1> QED
  BY <1>1, <1>3, <1>4

LEMMA PastSteps ==
  ASSUME NEW k
  PROVE  /\ Past(k, 0) = 0
         /\ Fixed => \A h : Past(k, h) = 0
         /\ ~Fixed => \A h \in 1 .. nruns :
              Past(k, h) = Past(k, h - 1) + (IF h - 1 \in Active(k) THEN size ELSE 0)
         /\ ~Fixed => Past(k, nruns) = size * Cardinality(Active(k))
<1>0. size \in Nat /\ nruns \in Nat /\ Active(k) \subseteq 0 .. nruns - 1 /\ IsFiniteSet(Active(k))
  BY Parameters, Actives
<1>1. ASSUME NEW h, {r \in Active(k) : ~Fixed /\ r < h} = {} PROVE Past(k, h) = 0
  BY <1>0, <1>1, FS_EmptySet DEF Past
<1>2. {r \in Active(k) : ~Fixed /\ r < 0} = {}
  BY <1>0
<1>3. ASSUME ~Fixed, NEW h \in 1 .. nruns
      PROVE  Past(k, h) = Past(k, h - 1) + (IF h - 1 \in Active(k) THEN size ELSE 0)
  <2> DEFINE A == {r \in Active(k) : ~Fixed /\ r < h - 1}
             B == {r \in Active(k) : ~Fixed /\ r < h}
             n == Cardinality(A)
  <2>1. IsFiniteSet(A) /\ n \in Nat
    BY Actives, FS_CardinalityType
  <2>2. Past(k, h - 1) = size * n /\ Past(k, h) = size * Cardinality(B)
    BY DEF Past
  <2>3. CASE h - 1 \in Active(k)
    <3>1. B = A \cup {h - 1} /\ h - 1 \notin A
      BY <1>0, <1>3, <2>3
    <3>2. Cardinality(B) = n + 1
      BY <2>1, <3>1, OneMore
    <3> HIDE DEF A, B, n
    <3>3. size * (n + 1) = size * n + size
      BY <1>0, <2>1
    <3> QED
      BY <2>2, <2>3, <3>2, <3>3
  <2>4. CASE h - 1 \notin Active(k)
    <3>1. B = A
      BY <1>0, <1>3, <2>4
    <3>2. size * n \in Int
      BY <1>0, <2>1
    <3> HIDE DEF A, B
    <3> QED
      BY <2>2, <2>4, <3>1, <3>2
  <2> QED
    BY <2>3, <2>4
<1>4. ASSUME ~Fixed PROVE Past(k, nruns) = size * Cardinality(Active(k))
  <2>1. {r \in Active(k) : ~Fixed /\ r < nruns} = Active(k)
    BY <1>0, <1>4
  <2> QED
    BY <2>1 DEF Past
<1>5. Fixed => \A h : {r \in Active(k) : ~Fixed /\ r < h} = {}
  OBVIOUS
<1> QED
  BY <1>1, <1>2, <1>3, <1>4, <1>5

LEMMA SamePast ==
  ASSUME cfg' = cfg, draws' = draws
  PROVE  \A k, h : Past(k, h)' = Past(k, h)
<1>1. \A k : Active(k)' = Active(k)
  BY DEF Active, Fixed
<1>2. Fixed' <=> Fixed
  BY DEF Fixed
<1> QED
  BY <1>1, <1>2 DEF Past

\* Role 0 adds the outcome of its iteration.
LEMMA AddStep ==
  ASSUME TypeInv, ScriptInv, NEW t \in Tids, At(t, "hash_add")
  PROVE  InIteration(t) /\ ctx[t] \in Insts /\ myrole[t] = 0 /\ Latest(t, "hash_add") = Now(t) - 1
<1>1. "hash_add" \in Steps /\ cfg \in Settings
  BY DEF Steps, TypeInv
<1>2. InIteration(t) /\ ctx[t] \in Insts /\ myrole[t] \in Roles
  BY <1>1, Within
<1>3. todo[t] # <<>> /\ Head(todo[t]) = "hash_add"
  BY DEF At
<1>4. /\ Pos(t) \in Nat /\ Pos(t) <= Total(myrole[t]) /\ OpAt(Pos(t) + 1, "hash_add")
      /\ Pos(t) # Total(myrole[t])
  BY <1>2, <1>3, Stands
<1>5. Pos(t) = Where("hash_add")
  BY <1>1, <1>4, Places
<1>6. Where("hash_add") = Common + 1
  BY <1>1, WhereFacts
<1>7. myrole[t] = 0
  <2>1. myrole[t] \in Int
    BY <1>2 DEF Roles
  <2>2. myrole[t] # 0 => Total(myrole[t]) = Common
    BY <1>1, <2>1, Whole
  <2>3. Common \in Nat
    BY <1>1, <2>1, Whole
  <2> QED
    BY <1>4, <1>5, <1>6, <2>2, <2>3
<1>8. Begun(t) = Now(t)
  BY <1>2, Nows, Parameters DEF Begun, InIteration, Running
<1>9. Latest(t, "hash_add") = Now(t) - 1
  <2>1. Pos(t) <= Where("hash_add")
    BY <1>4, <1>5
  <2> QED
    BY <1>2, <1>8, <2>1 DEF Latest, One
<1> QED
  BY <1>2, <1>7, <1>9

LEMMA CountQuiet ==
  ASSUME TypeInv, ScriptInv, RowInv, NEW R \in Nat, GlobalInv(R), CountInv(R),
         NEW t \in Tids, zyva(t)
  PROVE  CountInv(R)'
<1>a. cfg' = cfg /\ draws' = draws
  BY Frame
<1>b. \A k, h : Past(k, h)' = Past(k, h)
  BY <1>a, SamePast
<1>c. \A h : Base(h)' = Base(h)
  BY <1>a, SameRows
<1> SUFFICES ASSUME NEW k \in Insts PROVE CountOf(k, R)'
  BY DEF CountInv
<1>k. CountOf(k, R)
  BY DEF CountInv
<1>p. \A h : Past(k, h) \in Int /\ Past(k, h)' = Past(k, h)
  BY <1>b, Actives
<1>1. ASSUME ~At(t, "hash_add") PROVE count' = count
  BY <1>1 DEF zyva, init_global, barrier_wait, set_role, Loop, Write, Timebase, Record, Op
<1>2. ASSUME At(t, "hash_add")
      PROVE  /\ count' = [count EXCEPT ![ctx[t]] = @ + 1] /\ Record(t)
             /\ InIteration(t) /\ ctx[t] \in Insts /\ myrole[t] = 0 /\ Latest(t, "hash_add") = Now(t) - 1
             /\ R = 2 * Starts(t) /\ Starts(t) \in Nat /\ Starts(t) > 0
  <2>1. InIteration(t) /\ ctx[t] \in Insts /\ myrole[t] = 0 /\ Latest(t, "hash_add") = Now(t) - 1
    BY <1>2, AddStep
  <2>2. "hash_add" \in Steps
    BY DEF Steps
  <2>3. Record(t)
    <3>1. ~AtBar(t)
      BY <1>2, <2>2, Within
    <3>2. ~init_global(t)
      BY <2>1, Initialising
    <3>3. ~barrier_wait(t)
      BY <3>1, BarStep
    <3>4. ~Loop(t) /\ ~set_role(t) /\ ~Write(t) /\ ~Timebase(t)
      BY <1>2 DEF Loop, set_role, Write, Timebase, Op, At, Kinds
    <3> QED
      BY <3>2, <3>3, <3>4 DEF zyva
  <2>4. count' = [count EXCEPT ![ctx[t]] = @ + 1]
    BY <1>2, <2>3 DEF Record, Op, At
  <2> QED
    BY <2>1, <2>3, <2>4, Parity
<1>3. CASE R = 0
  <2>1. ~At(t, "hash_add")
    BY <1>2, <1>3
  <2> QED
    BY <1>1, <1>3, <1>k, <2>1 DEF CountOf
<1>4. CASE R # 0 /\ R % 2 = 1
  <2>1. ~At(t, "hash_add")
    <3> SUFFICES ASSUME At(t, "hash_add") PROVE FALSE
      OBVIOUS
    <3>1. R = 2 * Starts(t) /\ Starts(t) \in Nat
      BY <1>2
    <3> QED
      BY <1>4, <3>1
  <2> QED
    BY <1>1, <1>4, <1>k, <1>p, <2>1 DEF CountOf
<1>5. CASE R # 0 /\ R % 2 # 1
  <2> DEFINE h == R \div 2
             P == Past(k, h - 1)
  <2>1. /\ \A u \in Tids : ctx[u] = k /\ myrole[u] = 0 =>
             count[k] = P + (Latest(u, "hash_add") - Base(h))
        /\ (\A u \in Tids : ctx[u] = k => myrole[u] # 0) => count[k] = P
    BY <1>5, <1>k DEF CountOf
  <2>2. P \in Int /\ P' = P /\ Base(h)' = Base(h)
    BY <1>c, <1>p
  <2>3. ~set_role(t)
    <3> SUFFICES ASSUME set_role(t) PROVE FALSE
      OBVIOUS
    <3>1. At(t, "set_role")
      BY DEF set_role, Op
    <3>2. R = 2 * nrun[t] + 1 /\ nrun[t] \in Nat
      BY <3>1, Parity
    <3> QED
      BY <1>5, <3>2
  <2>4. \A u \in Tids : ctx'[u] = ctx[u] /\ myrole'[u] = myrole[u]
    BY <2>3, Moves, StillThere DEF Same
  <2>5. \A u \in Tids : u # t => Latest(u, "hash_add")' = Latest(u, "hash_add")
    BY StillThere
  <2>6. "hash_add" \in Steps /\ "hash_add" # "final"
    BY DEF Steps
  <2>7. ctx[t] >= 0 /\ myrole[t] = 0 =>
          Latest(t, "hash_add")' = IF At(t, "hash_add") THEN Now(t) ELSE Latest(t, "hash_add")
    BY <2>3, <2>6, Moves
  <2>8. k >= 0
    BY DEF Insts
  <2> SUFFICES /\ \A u \in Tids : ctx[u] = k /\ myrole[u] = 0 =>
                    count'[k] = P + (Latest(u, "hash_add")' - Base(h))
               /\ (\A u \in Tids : ctx[u] = k => myrole[u] # 0) => count'[k] = P
    <3> HIDE DEF P
    <3>1. CountOf(k, R)' <=>
            /\ \A u \in Tids : ctx'[u] = k /\ myrole'[u] = 0 =>
                 count'[k] = P' + (Latest(u, "hash_add")' - Base(h)')
            /\ (\A u \in Tids : ctx'[u] = k => myrole'[u] # 0) => count'[k] = P'
      BY <1>5 DEF CountOf, P
    <3> QED
      BY <2>2, <2>4, <3>1
  <2> HIDE DEF P, h
  <2>9. CASE ~At(t, "hash_add")
    BY <1>1, <2>1, <2>5, <2>7, <2>8, <2>9
  <2>10. CASE At(t, "hash_add") /\ k # ctx[t]
    <3>1. count'[k] = count[k]
      BY <1>2, <2>10 DEF TypeInv
    <3> QED
      BY <2>1, <2>5, <2>10, <3>1
  <2>11. CASE At(t, "hash_add") /\ k = ctx[t]
    <3>1. count'[k] = count[k] + 1 /\ count[k] \in Int
      BY <1>2, <2>11 DEF TypeInv
    <3>2. myrole[t] = 0 /\ Latest(t, "hash_add") = Now(t) - 1 /\ Latest(t, "hash_add")' = Now(t) /\ Now(t) \in Int
      BY <1>2, <2>7, <2>8, <2>11, Nows
    <3>3. ASSUME NEW u \in Tids, ctx[u] = k, myrole[u] = 0 PROVE u = t
      <4>1. \A x, y \in Members(k) : myrole[x] = myrole[y] => x = y
        BY <1>2, <2>11, CrewOf
      <4>2. t \in Members(k) /\ u \in Members(k)
        BY <2>11, <3>3 DEF Members
      <4> QED
        BY <3>2, <3>3, <4>1, <4>2
    <3>4. count[k] = P + (Now(t) - 1 - Base(h))
      BY <2>1, <2>11, <3>2
    <3>5. Base(h) \in Int
      <4>1. h \in Int
        BY <1>5 DEF h
      <4>2. (h - 1) * size \in Int
        BY <4>1, Parameters
      <4> QED
        BY <4>2 DEF Base
    <3>6. count'[k] = P + (Now(t) - Base(h))
      BY <2>2, <3>1, <3>2, <3>4, <3>5
    <3> QED
      BY <2>11, <3>2, <3>3, <3>6
  <2> QED
    BY <2>9, <2>10, <2>11
<1> QED
  BY <1>3, <1>4, <1>5

\* All the threads pass g->gb together: a run is over, or begins.
LEMMA CountClose ==
  ASSUME TypeInv, ScriptInv, RowInv, NEW R \in Nat, GlobalInv(R), CountInv(R),
         NEW t \in Tids, barrier_wait(t), At(t, "gsync"), Advance(t),
         \A u \in Tids : At(u, "gsync") /\ GBehind(u) = R
  PROVE  CountInv(R + 1)'
<1>z. zyva(t)
  BY DEF zyva
<1>a. cfg' = cfg /\ draws' = draws /\ UNCHANGED <<nrun, s, ctx, myrole, count>>
  BY <1>z, Frame DEF barrier_wait
<1>b. \A k, h : Past(k, h)' = Past(k, h)
  BY <1>a, SamePast
<1>c. \A h : Base(h)' = Base(h)
  BY <1>a, SameRows
<1>1. PICK h \in Nat : R = 2 * h \/ R = 2 * h + 1
  <2>1. R = 2 * (R \div 2) + (R % 2) /\ R % 2 \in {0, 1} /\ R \div 2 \in Nat
    OBVIOUS
  <2> QED
    BY <2>1
<1>2. \A u \in Tids : InSetRole(u) /\ Starts(u) = nrun[u] + 1 /\ Begun(u) = nrun[u] * size
                      /\ (Fixed => nrun[u] = 0) /\ nrun[u] \in 0 .. nruns - 1 /\ ~InIteration(u)
                      /\ GRem(u) \in {1, 2} /\ R = 2 * (nrun[u] + 1) - GRem(u)
  <2> TAKE u \in Tids
  <2>1. InSetRole(u) /\ GBehind(u) = R
    BY BarFacts
  <2>2. Starts(u) = nrun[u] + 1 /\ GRem(u) \in {0, 1, 2} /\ GRem(u) # 0
    BY <2>1, GlobalPlace
  <2> QED
    BY <2>1, <2>2, GlobalPlace DEF GBehind
<1>3. \A u \in Tids : nrun[u] = h
  <2> TAKE u \in Tids
  <2>1. GRem(u) \in {1, 2} /\ R = 2 * (nrun[u] + 1) - GRem(u) /\ nrun[u] \in Int
    BY <1>2, Nows
  <2> QED
    BY <1>1, <2>1
<1>4. (Fixed => h = 0) /\ h < nruns
  BY <1>2, <1>3, Parameters
<1>5. \A u \in Tids : Latest(u, "hash_add") = h * size
  <2>1. h * size \in Int
    BY Parameters
  <2> QED
    BY <1>2, <1>3, <2>1 DEF Latest, One
<1>6. \A u \in Tids : Latest(u, "hash_add")' = h * size
  <2>1. /\ ~InIteration(t)' /\ Begun(t)' = Begun(t)
    BY <1>2, <1>a, AdvanceSetRole
  <2>2. h * size \in Int
    BY Parameters
  <2>3. Latest(t, "hash_add")' = h * size
    BY <1>2, <1>3, <2>1, <2>2 DEF Latest, One
  <2>4. \A u \in Tids : u # t => Latest(u, "hash_add")' = h * size
    BY <1>5, <1>z, StillThere
  <2> QED
    BY <2>3, <2>4
<1> SUFFICES ASSUME NEW k \in Insts PROVE CountOf(k, R + 1)'
  BY DEF CountInv
<1>k. CountOf(k, R)
  BY DEF CountInv
<1>p. \A j : Past(k, j) \in Int /\ Past(k, j)' = Past(k, j)
  BY <1>b, Actives
\* The run that begins: nothing is counted for the new roles.
<1>7. CASE R = 2 * h + 1
  <2>1. R # 0 /\ R % 2 = 1 /\ (R - 1) \div 2 = h
    BY <1>7
  <2>2. count[k] = Past(k, h)
    BY <1>k, <2>1 DEF CountOf
  <2>3. R + 1 # 0 /\ (R + 1) % 2 # 1 /\ (R + 1) \div 2 = h + 1 /\ (h + 1) - 1 = h
    BY <1>7
  <2>4. Base(h + 1)' = h * size /\ h * size \in Int
    <3>1. h = 0 => h * size = 0
      BY Parameters
    <3> QED
      BY <1>4, <1>a, <2>3, <3>1, Parameters DEF Base, Fixed
  <2>5. \A u \in Tids : count'[k] = Past(k, h)' + (Latest(u, "hash_add")' - Base(h + 1)')
    BY <1>6, <1>a, <1>p, <2>2, <2>4
  <2>6. count'[k] = Past(k, h)'
    BY <1>a, <1>p, <2>2
  <2> QED
    BY <2>3, <2>5, <2>6 DEF CountOf
\* The run that is over: its outcomes are all there.
<1>8. CASE R = 2 * h
  <2>1. R + 1 # 0 /\ (R + 1) % 2 = 1 /\ ((R + 1) - 1) \div 2 = h
    BY <1>8
  <2> SUFFICES count[k] = Past(k, h)
    BY <1>a, <1>p, <2>1 DEF CountOf
  <2>2. CASE h = 0
    BY <1>8, <1>k, <2>2, PastSteps DEF CountOf
  <2>3. CASE h # 0
    <3>1. h \in Nat \ {0} /\ ~Fixed /\ h \in 1 .. nruns /\ h - 1 \in 0 .. nruns - 1
      BY <1>4, <2>3, Parameters
    <3>2. R # 0 /\ R % 2 # 1 /\ R \div 2 = h
      BY <1>8, <2>3
    <3>3. /\ \A u \in Tids : ctx[u] = k /\ myrole[u] = 0 =>
               count[k] = Past(k, h - 1) + (Latest(u, "hash_add") - Base(h))
          /\ (\A u \in Tids : ctx[u] = k => myrole[u] # 0) => count[k] = Past(k, h - 1)
      BY <1>k, <3>2 DEF CountOf
    <3>4. Past(k, h) = Past(k, h - 1) + (IF h - 1 \in Active(k) THEN size ELSE 0)
      BY <3>1, PastSteps
    <3>5. \A u \in Tids : Held(u) = h
      BY <1>8, EvenRound
    <3>6. /\ Members(k) = IF k < cfg.nexe THEN Crew(RowOf(h), k) ELSE {}
          /\ Members(k) # {} => \A r \in Roles : \E u \in Members(k) : myrole[u] = r
      BY <3>1, <3>5, Crews
    <3>7. RowOf(h) = draws[h - 1]
      BY <3>1 DEF RowOf
    <3>8. h - 1 \in Active(k) <=> Members(k) # {}
      BY <3>1, <3>6, <3>7 DEF Active
    <3>9. CASE Members(k) # {}
      <4>1. PICK u \in Members(k) : myrole[u] = 0
        BY <3>6, <3>9, Parameters
      <4>2. count[k] = Past(k, h - 1) + (h * size - Base(h))
        BY <1>5, <3>3, <4>1 DEF Members
      <4>3. Base(h) = (h - 1) * size
        BY <3>1 DEF Base
      <4>4. h * size - (h - 1) * size = size
        <5>1. (h - 1) * size = h * size - size /\ h * size \in Int
          BY Parameters
        <5> QED
          BY <5>1, Parameters
      <4> QED
        BY <3>4, <3>8, <3>9, <4>2, <4>3, <4>4
    <3>10. CASE Members(k) = {}
      <4>1. \A u \in Tids : ctx[u] = k => myrole[u] # 0
        BY <3>10 DEF Members
      <4> QED
        BY <1>p, <3>3, <3>4, <3>8, <3>10, <4>1
    <3> QED
      BY <3>9, <3>10
  <2> QED
    BY <2>2, <2>3
<1> QED
  BY <1>1, <1>7, <1>8

-----------------------------------------------------------------------------
(***************************************************************************)
(* The invariant.                                                          *)
(***************************************************************************)
LEMMA InitIInv == Init => IInv
<1> SUFFICES ASSUME Init PROVE IInv
  OBVIOUS
<1>1. /\ cfg \in Settings /\ go = 0
      /\ todo = [t \in Tids |-> IF t = 0 THEN <<"init", "go">> ELSE <<"wait_go">>]
      /\ \A t \in Tids : nrun[t] = -1 /\ s[t] = 0 /\ ctx[t] = -1 /\ myrole[t] = -1 /\ spin[t] = FALSE
  BY DEF Init
<1>2. TypeInv
  <2>1. <<"init", "go">> \in Seq(Ops) /\ <<"wait_go">> \in Seq(Ops)
    BY DEF Ops
  <2>2. todo \in [Tids -> Seq(Ops)]
    BY <1>1, <2>1
  <2>3. /\ s \in [Tids -> -1 .. size - 1] /\ nrun \in [Tids -> -1 .. nruns]
        /\ ctx \in [Tids -> -1 .. NEXE - 1] /\ myrole \in [Tids -> -1 .. N - 1]
    <3>1. 0 \in -1 .. size - 1 /\ -1 \in -1 .. nruns /\ -1 \in -1 .. NEXE - 1 /\ -1 \in -1 .. N - 1
      BY Parameters
    <3> QED
      BY <3>1 DEF Init
  <2>4. barr \in [Bars -> [c : Int, sense : {0, 1}]]
    BY DEF Init
  <2>5. /\ data \in [Insts -> [Kinds -> [Roles -> Int]]]
        /\ next_tb \in [Insts -> Int \X Int] /\ tb0 \in [Tids -> Int \X Int]
        /\ count \in [Insts -> Int]
    BY DEF Init
  <2> QED
    BY <1>1, <2>2, <2>3, <2>4, <2>5 DEF TypeInv, Init
<1>3. \A t \in Tids : /\ ~Running(t) /\ ~InIteration(t) /\ ~InSetRole(t) /\ ~AtBar(t)
                      /\ Starts(t) = 0 /\ GRem(t) = 0 /\ Held(t) = 0 /\ GBehind(t) = 0
  <2> TAKE t \in Tids
  <2>1. ~Running(t) /\ ~InIteration(t) /\ ~InSetRole(t)
    BY <1>1 DEF Running, InIteration, InSetRole
  <2>2. ~AtBar(t)
    BY <1>1, ShortScripts DEF AtBar, At
  <2>3. Starts(t) = 0 /\ GRem(t) = 0
    BY <1>1, <2>1 DEF Starts, GRem
  <2>4. Held(t) = 0 - 0
    BY <2>1, <2>3 DEF Held, One
  <2>5. GBehind(t) = 2 * 0 - 0
    BY <2>3 DEF GBehind
  <2> QED
    BY <2>1, <2>2, <2>3, <2>4, <2>5
<1>4. ScriptInv
  <2> SUFFICES ASSUME NEW t \in Tids PROVE ScriptOf(t)
    BY DEF ScriptInv
  <2>1. /\ t = 0 => todo[t] = <<"init", "go">>
        /\ t # 0 => todo[t] = <<"wait_go">>
    BY <1>1
  <2>2. nrun[t] # nruns
    BY <1>1, Parameters
  <2> QED
    BY <1>1, <1>3, <2>1, <2>2, ShortScripts DEF ScriptOf
<1>5. RowInv
  BY <1>1, <1>3 DEF RowInv, RoleOf
<1>6. ~Ready
  <2>1. todo[0] = <<"init", "go">>
    BY <1>1, Parameters
  <2>2. Len(<<"init", "go">>) # Len(<<"go">>)
    OBVIOUS
  <2> QED
    BY <1>1, <2>1, <2>2 DEF Ready
<1>7. InstInv
  <2>1. \A k \in Insts, t \in Tids : ctx[t] # k
    BY <1>1 DEF Insts
  <2>2. 0 \in Int
    OBVIOUS
  <2> QED
    BY <1>6, <2>1, <2>2 DEF InstInv, InstOf
<1>8. GlobalInv(0) /\ CountInv(0)
  <2>1. \A t \in Tids : Round(0, t, "gsync", GBehind(t))
    BY <1>3 DEF Round, AtBar
  <2>2. \A k \in Insts : count[k] = 0
    BY DEF Init
  <2> QED
    BY <1>6, <2>1, <2>2 DEF GlobalInv, CountInv, CountOf
<1>9. DataInv
  BY <1>1 DEF DataInv
<1>10. TimeInv
  BY <1>3 DEF TimeInv
<1>11. GlobalIInv
  <2>1. 0 \in Nat
    OBVIOUS
  <2> QED
    BY <1>8, <2>1 DEF GlobalIInv
<1> QED
  BY <1>2, <1>4, <1>5, <1>7, <1>9, <1>10, <1>11 DEF IInv

LEMMA Stutter == IInv /\ UNCHANGED vars => IInv'
<1> SUFFICES ASSUME IInv, UNCHANGED vars PROVE IInv'
  OBVIOUS
<1>1. UNCHANGED <<cfg, draws, go, todo, spin, ms, nrun, s, ctx, myrole, barr, data, next_tb, tb0, count>>
  BY DEF vars, shared
<1>2. TypeInv' /\ ScriptInv'
  BY StepType, StepScript DEF IInv
<1>3. \A u \in Tids :
        /\ (InIteration(u)' <=> InIteration(u)) /\ (InSetRole(u)' <=> InSetRole(u))
        /\ Now(u)' = Now(u) /\ Begun(u)' = Begun(u) /\ Behind(u)' = Behind(u)
        /\ GBehind(u)' = GBehind(u) /\ Held(u)' = Held(u) /\ Pos(u)' = Pos(u)
        /\ \A w : Latest(u, w)' = Latest(u, w)
        /\ \A op : At(u, op)' <=> At(u, op)
  BY <1>1, Elsewhere
<1>4. \A h : RowOf(h)' = RowOf(h) /\ Base(h)' = Base(h)
  BY <1>1, SameRows
<1>5. \A k, h : Past(k, h)' = Past(k, h)
  BY <1>1, SamePast
<1>6. \A u \in Tids : (Bar(u)' = Bar(u)) /\ (Waits(u)' <=> Waits(u))
  BY <1>1, <1>3 DEF Bar, GB, Waits
<1>7. RowInv'
  <2>1. \A u \in Tids : RowOf(Held(u))' = RowOf(Held(u))
    BY <1>1, <1>3 DEF RowOf, Fixed
  <2> QED
    BY <1>1, <1>3, <2>1 DEF IInv, RowInv, RoleOf
<1>8. InstInv'
  <2> SUFFICES ASSUME NEW k \in Insts PROVE InstOf(k)'
    BY DEF InstInv
  <2>1. PICK R \in Int : \A u \in Tids : ctx[u] = k => Round(R, u, "sync", Behind(u))
    BY DEF IInv, InstInv, InstOf
  <2>2. \A u \in Tids : ctx'[u] = k => Round(R, u, "sync", Behind(u))'
    BY <1>1, <1>3, <1>6, <2>1 DEF Round
  <2>3. Waiting(k)' = Waiting(k)
    BY <1>1, <1>3, <1>6 DEF Waiting
  <2>4. Ready' => barr'[k].c = N - Cardinality(Waiting(k)')
    BY <1>1, <2>3 DEF IInv, InstInv, InstOf, Ready
  <2> QED
    BY <2>2, <2>4 DEF InstOf
<1>9. GlobalIInv'
  <2> PICK R \in Nat : GlobalInv(R) /\ CountInv(R)
    BY DEF IInv, GlobalIInv
  <2>1. GWaiting' = GWaiting
    BY <1>3, <1>6 DEF GWaiting
  <2>2. \A u \in Tids : Round(R, u, "gsync", GBehind(u))'
    BY <1>1, <1>3, <1>6 DEF Round, GlobalInv
  <2>3. Ready' => barr'[GB].c = AVAIL - Cardinality(GWaiting')
    BY <1>1, <2>1 DEF GlobalInv, Ready, GWaiting
  <2>4. GlobalInv(R)'
    BY <2>2, <2>3 DEF GlobalInv, GWaiting
  <2>5. CountInv(R)'
    BY <1>1, <1>3, <1>4, <1>5 DEF CountInv, CountOf
  <2> QED
    BY <2>4, <2>5 DEF GlobalIInv
<1>10. DataInv'
  <2>1. \A u \in Tids : Base(Held(u))' = Base(Held(u))
    BY <1>1, <1>3 DEF Base, Fixed
  <2> QED
    BY <1>1, <1>3, <2>1 DEF IInv, DataInv
<1>11. TimeInv'
  <2>1. \A w : Where(w)' = Where(w)
    BY <1>1, SameScript
  <2> QED
    BY <1>1, <1>3, <2>1 DEF IInv, TimeInv
<1> QED
  BY <1>2, <1>7, <1>8, <1>9, <1>10, <1>11 DEF IInv

LEMMA StepIInv == IInv /\ [Next]_vars => IInv'
<1> SUFFICES ASSUME IInv, [Next]_vars PROVE IInv'
  OBVIOUS
<1>0. TypeInv /\ ScriptInv /\ RowInv /\ InstInv /\ DataInv /\ TimeInv
  BY DEF IInv
<1>1. PICK R \in Nat : GlobalInv(R) /\ CountInv(R)
  BY DEF IInv, GlobalIInv
<1>2. ASSUME NEW t \in Tids, zyva(t) PROVE IInv'
  <2>1. TypeInv' /\ ScriptInv'
    BY <1>0, <1>2, StepType, StepScript DEF Next
  <2>2. RowInv'
    BY <1>0, <1>2, StepRow
  <2>3. InstInv'
    BY <1>0, <1>1, <1>2, StepInst
  <2>4. DataInv'
    BY <1>0, <1>1, <1>2, StepData
  <2>5. TimeInv'
    BY <1>0, <1>2, StepTime
  <2>6. GlobalIInv'
    <3>1. CASE GlobalInv(R)'
      <4>1. CountInv(R)'
        BY <1>0, <1>1, <1>2, CountQuiet
      <4> QED
        BY <3>1, <4>1 DEF GlobalIInv
    <3>2. CASE /\ GlobalInv(R + 1)' /\ At(t, "gsync") /\ Advance(t) /\ barrier_wait(t)
               /\ \A u \in Tids : At(u, "gsync") /\ GBehind(u) = R
      <4>1. CountInv(R + 1)' /\ R + 1 \in Nat
        BY <1>0, <1>1, <3>2, CountClose
      <4> QED
        BY <3>2, <4>1 DEF GlobalIInv
    <3> QED
      BY <1>0, <1>1, <1>2, <3>1, <3>2, StepGlobal
  <2> QED
    BY <2>1, <2>2, <2>3, <2>4, <2>5, <2>6 DEF IInv
<1>3. CASE UNCHANGED vars
  BY <1>3, Stutter
<1> QED
  BY <1>2, <1>3 DEF Next, Finished

\* The invariant holds in all the reachable states, and types with it.
THEOREM HarnessInvariance == Spec => []IInv
  BY InitIInv, StepIInv, PTL DEF Spec

-----------------------------------------------------------------------------
(***************************************************************************)
(* What the invariant gives.                                               *)
(***************************************************************************)
LEMMA CrewFacts ==
  ASSUME IInv, NEW t \in Tids, NEW u \in Tids, t # u, Iterating(t), Iterating(u), ctx[t] = ctx[u]
  PROVE  /\ myrole[t] # myrole[u]
         /\ Part(t) = Part(u)
         /\ Fixed \/ nrun[t] = nrun[u]
<1>0. TypeInv /\ ScriptInv /\ RowInv
  BY DEF IInv
<1>1. PICK R \in Nat : GlobalInv(R) /\ CountInv(R)
  BY DEF IInv, GlobalIInv
<1>2. ASSUME NEW v \in Tids, Iterating(v) PROVE InIteration(v)
  <2>1. todo[v] # <<>> /\ ctx[v] >= 0 /\ s[v] >= 0
    BY <1>2 DEF Iterating
  <2>2. nrun[v] \in -1 .. nruns /\ nrun[v] # -1 /\ nrun[v] # nruns
    BY <1>0, <2>1 DEF TypeInv, ScriptInv, ScriptOf
  <2> QED
    BY <2>1, <2>2, Parameters DEF InIteration, Running
<1>3. InIteration(t) /\ InIteration(u)
  BY <1>2
<1>4. myrole[t] # myrole[u]
  BY <1>0, <1>1, <1>3, CrewOf DEF Members
<1>5. Starts(t) = Starts(u)
  <2>1. R = 2 * Starts(t) /\ R = 2 * Starts(u) /\ Starts(t) \in Nat /\ Starts(u) \in Nat
    BY <1>0, <1>1, <1>3, Parity
  <2> QED
    BY <2>1
<1>6. Fixed \/ nrun[t] = nrun[u]
  <2>1. ~Fixed => Starts(t) = nrun[t] + 1 /\ Starts(u) = nrun[u] + 1
    BY <1>0, <1>3, GlobalPlace
  <2>2. nrun[t] \in Int /\ nrun[u] \in Int
    BY <1>0, Nows
  <2> QED
    BY <1>5, <2>1, <2>2
<1>7. Part(t) = Part(u)
  BY <1>6 DEF Part
<1> QED
  BY <1>4, <1>6, <1>7

\* Two threads in the iterations of the same instance have different roles of
\* the same row of the topology, whatever the rows, the instances in use and the
\* number of runs: set_role stands between two barriers of all the threads.
THEOREM CrewsApart == Spec => []OneCrew
<1>1. IInv => OneCrew
  BY CrewFacts DEF OneCrew
<1> QED
  BY <1>1, HarnessInvariance, PTL

\* What each role of the crew has written, for a thread that has passed the
\* barrier after it.
LEMMA WrittenBy ==
  ASSUME IInv, NEW t \in Tids, InIteration(t), ~spin[t], Passed(Pos(t)) >= 1,
         NEW what \in Kinds, what = "final" => cfg.finals,
         \A u \in Tids :
           /\ InIteration(u)
           /\ \/ Passed(Pos(u)) = Passed(Pos(t))
              \/ At(u, "sync") /\ Passed(Pos(u)) + 1 = Passed(Pos(t))
           => Pos(u) > Where(what)
  PROVE  \A r \in Roles : data[ctx[t]][what][r] = Now(t)
<1>0. TypeInv /\ ScriptInv /\ RowInv /\ InstInv /\ DataInv /\ cfg \in Settings
  BY DEF IInv, TypeInv
<1>1. PICK R \in Nat : GlobalInv(R) /\ CountInv(R)
  BY DEF IInv, GlobalIInv
<1> DEFINE k == ctx[t]
<1>2. /\ k \in Insts /\ \A u \in Tids : Held(u) = Starts(t)
      /\ \A r \in Roles : \E u \in Members(k) : myrole[u] = r
  BY <1>0, <1>1, CrewOf
<1>3. InstOf(k)
  BY <1>0, <1>2 DEF InstInv
<1> SUFFICES ASSUME NEW r \in Roles PROVE data[k][what][r] = Now(t)
  OBVIOUS
<1>4. PICK u \in Members(k) : myrole[u] = r
  BY <1>2
<1>5. u \in Tids /\ ctx[u] = k /\ ctx[u] >= 0
  BY <1>2, <1>4 DEF Members, Insts
<1>6. Where(what) \in Nat /\ what \in Steps
  <2>1. what \in Steps
    BY DEF Steps
  <2> QED
    BY <1>0, <2>1, WhereFacts
<1>7. Now(t) \in Int /\ Now(u) \in Int /\ Begun(u) \in Int /\ (InIteration(u) => Begun(u) = Now(u))
  <2>1. Now(t) \in Int /\ Now(u) \in Int /\ Begun(u) \in Int
    BY <1>0, <1>5, Nows
  <2>2. InIteration(u) => ~(nrun[u] >= nruns)
    BY <1>0, <1>5, Nows, Parameters DEF InIteration, Running
  <2> QED
    BY <2>1, <2>2 DEF Begun
<1>8. Latest(u, what) = Now(t)
  <2>1. \/ /\ InIteration(u) /\ Now(u) = Now(t)
           /\ \/ Passed(Pos(u)) = Passed(Pos(t))
              \/ At(u, "sync") /\ Passed(Pos(u)) + 1 = Passed(Pos(t))
        \/ InIteration(u) /\ Now(u) = Now(t) + 1 /\ Passed(Pos(u)) = 0
        \/ ~InIteration(u) /\ Begun(u) = Now(t)
    BY <1>0, <1>2, <1>3, <1>5, Companions
  <2>2. CASE /\ InIteration(u) /\ Now(u) = Now(t)
             /\ \/ Passed(Pos(u)) = Passed(Pos(t))
                \/ At(u, "sync") /\ Passed(Pos(u)) + 1 = Passed(Pos(t))
    <3>1. Pos(u) > Where(what) /\ Pos(u) \in Nat
      BY <1>0, <1>5, <2>2, Stands
    <3>2. ~(Pos(u) <= Where(what))
      BY <1>6, <3>1
    <3> QED
      BY <1>7, <2>2, <3>2 DEF Latest, One
  <2>3. CASE InIteration(u) /\ Now(u) = Now(t) + 1 /\ Passed(Pos(u)) = 0
    <3>1. Pos(u) \in Nat
      BY <1>0, <1>5, <2>3, Stands
    <3>2. Pos(u) <= Where(what)
      <4>1. ~(Pos(u) >= 1)
        BY <1>0, <2>3, <3>1, Flags DEF Passed, One
      <4> QED
        BY <1>6, <3>1, <4>1
    <3> QED
      BY <1>7, <2>3, <3>2 DEF Latest, One
  <2>4. CASE ~InIteration(u) /\ Begun(u) = Now(t)
    BY <1>7, <2>4 DEF Latest, One
  <2> QED
    BY <2>1, <2>2, <2>3, <2>4
<1>9. Now(t) > Base(Held(u))
  <2>1. nrun[t] \in Nat /\ s[t] \in Nat /\ (~Fixed => Starts(t) = nrun[t] + 1)
    <3>1. nrun[t] \in Int /\ s[t] \in Int /\ nrun[t] >= 0 /\ s[t] >= 0
      BY <1>0, Nows DEF InIteration, Running
    <3> QED
      BY <1>0, <3>1, GlobalPlace
  <2>2. nrun[t] * size \in Nat
    BY <2>1, Parameters
  <2>3. Base(Held(u)) = 0 \/ Base(Held(u)) = nrun[t] * size
    <3>1. Held(u) = Starts(t)
      BY <1>2, <1>5
    <3>2. ~Fixed => Held(u) - 1 = nrun[t]
      BY <2>1, <3>1
    <3> QED
      BY <3>2 DEF Base
  <2> QED
    BY <2>1, <2>2, <2>3 DEF Now
<1>10. data[ctx[u]][what][myrole[u]] = Latest(u, what)
  BY <1>0, <1>5, <1>8, <1>9 DEF DataInv
<1> QED
  BY <1>4, <1>5, <1>8, <1>10

\* The barriers of the script stand between the writing of a share and its uses.
Uses == {<<"cache", "param">>, <<"out", "vars">>, <<"out", "param">>, <<"out", "cache">>,
         <<"log", "out">>, <<"log", "final">>, <<"hash_add", "param">>, <<"hash_add", "cache">>}

LEMMA Ordered ==
  ASSUME cfg \in Settings, NEW use \in Uses, NEW op, NEW w, use = <<op, w>>,
         op = "cache" => cfg.globals, w = "final" => cfg.finals, NEW q \in Nat,
         \/ Passed(q) = Passed(Where(op))
         \/ OpAt(q + 1, "sync") /\ Passed(q) + 1 = Passed(Where(op))
  PROVE  Passed(Where(op)) >= 1 /\ q > Where(w)
<1>1. /\ G \in {0, 1} /\ C \in {0, 1} /\ F \in {0, 1} /\ (w = "final" => F = 1)
      /\ (op = "cache" => G = 1) /\ Common = 10 + G + C + 2 * F
  BY Flags DEF Common
<1>2. /\ Where("param") = 1 /\ Where("cache") = 2 + G /\ Where("vars") = 4 + G
      /\ Where("out") = 8 + G + C /\ Where("final") = 10 + G + C
      /\ Where("log") = Common /\ Where("hash_add") = Common + 1
  BY DEF Where
<1>3. \/ op = "cache" /\ w = "param"
      \/ op = "out" /\ w \in {"vars", "param", "cache"}
      \/ op = "log" /\ w \in {"out", "final"}
      \/ op = "hash_add" /\ w \in {"param", "cache"}
  BY DEF Uses
<1>4. OpAt(q + 1, "sync") =>
        \/ q \in {0, 3 + G, 6 + G + C, 9 + G + C}
        \/ G = 1 /\ q = 2
        \/ C = 1 /\ q = 5 + G
        \/ F = 1 /\ q = 11 + G + C
  BY <1>1 DEF OpAt
<1>5. CASE op = "cache"
  BY <1>1, <1>2, <1>3, <1>4, <1>5 DEF Passed, One
<1>6. CASE op = "out"
  BY <1>1, <1>2, <1>3, <1>4, <1>6 DEF Passed, One
<1>7. CASE op = "log"
  BY <1>1, <1>2, <1>3, <1>4, <1>7 DEF Passed, One
<1>8. CASE op = "hash_add"
  BY <1>1, <1>2, <1>3, <1>4, <1>8 DEF Passed, One
<1> QED
  BY <1>3, <1>5, <1>6, <1>7, <1>8

LEMMA UseOf ==
  ASSUME IInv, NEW t \in Tids, NEW use \in Uses, NEW op, NEW w, use = <<op, w>>, At(t, op),
         op = "cache" => cfg.globals, w = "final" => cfg.finals
  PROVE  \A r \in Roles : data[ctx[t]][w][r] = Now(t)
<1>0. TypeInv /\ ScriptInv /\ cfg \in Settings
  BY DEF IInv, TypeInv
<1>1. op \in Steps /\ w \in Kinds /\ op # "final"
  BY DEF Uses, Steps, Kinds
<1>2. InIteration(t) /\ ~spin[t]
  BY <1>0, <1>1, Within
<1>3. Pos(t) = Where(op)
  <2>1. todo[t] # <<>> /\ Head(todo[t]) = op
    BY DEF At
  <2>2. Pos(t) \in Nat /\ OpAt(Pos(t) + 1, op)
    BY <1>0, <1>2, <2>1, Stands
  <2> QED
    BY <1>0, <1>1, <2>2, Places
<1>4. \A u \in Tids :
        /\ InIteration(u)
        /\ \/ Passed(Pos(u)) = Passed(Pos(t))
           \/ At(u, "sync") /\ Passed(Pos(u)) + 1 = Passed(Pos(t))
        => Pos(u) > Where(w)
  <2> SUFFICES ASSUME NEW u \in Tids, InIteration(u),
                      \/ Passed(Pos(u)) = Passed(Pos(t))
                      \/ At(u, "sync") /\ Passed(Pos(u)) + 1 = Passed(Pos(t))
               PROVE  Pos(u) > Where(w)
    OBVIOUS
  <2>1. Pos(u) \in Nat /\ (At(u, "sync") => OpAt(Pos(u) + 1, "sync"))
    BY <1>0, Stands DEF At
  <2> QED
    BY <1>0, <1>3, <2>1, Ordered
<1>5. Passed(Pos(t)) >= 1
  <2>1. Pos(t) \in Nat
    BY <1>0, <1>2, Stands
  <2> QED
    BY <1>0, <1>3, <2>1, Ordered
<1> QED
  BY <1>1, <1>2, <1>4, <1>5, WrittenBy

\* Everything that a role uses of the others is of its own iteration, whatever
\* the number of threads and of runs and whichever optional barriers the test
\* has: those of ctx->b that are emitted separate each writing from its uses.
THEOREM IterationsApart == Spec => []SameIteration
<1>1. ASSUME IInv, NEW t \in Tids
      PROVE  /\ At(t, "cache") /\ cfg.globals => Written(t, {"param"})
             /\ At(t, "out") => Written(t, {"vars", "param", "cache"})
             /\ At(t, "log") => Written(t, {"out"} \cup (IF cfg.finals THEN {"final"} ELSE {}))
             /\ At(t, "hash_add") => Written(t, {"param", "cache"})
  <2>1. At(t, "cache") /\ cfg.globals => \A r \in Roles : data[ctx[t]]["param"][r] = Now(t)
    BY <1>1, UseOf DEF Uses
  <2>2. At(t, "out") => \A r \in Roles : /\ data[ctx[t]]["vars"][r] = Now(t)
                                         /\ data[ctx[t]]["param"][r] = Now(t)
                                         /\ data[ctx[t]]["cache"][r] = Now(t)
    BY <1>1, UseOf DEF Uses
  <2>3. At(t, "log") => \A r \in Roles : /\ data[ctx[t]]["out"][r] = Now(t)
                                         /\ cfg.finals => data[ctx[t]]["final"][r] = Now(t)
    BY <1>1, UseOf DEF Uses
  <2>4. At(t, "hash_add") => \A r \in Roles : /\ data[ctx[t]]["param"][r] = Now(t)
                                              /\ data[ctx[t]]["cache"][r] = Now(t)
    BY <1>1, UseOf DEF Uses
  <2> QED
    BY <2>1, <2>2, <2>3, <2>4 DEF Written
<1>2. IInv => SameIteration
  BY <1>1 DEF SameIteration
<1> QED
  BY <1>2, HarnessInvariance, PTL

\* The roles of an instance run the code of the test with the same target, read
\* in their own iteration: the last reading of next_tb precedes a barrier that
\* comes before any of them copies it.
THEOREM TargetsShared == Spec => []CommonTarget
<1>1. ASSUME IInv, NEW t \in Tids, At(t, "out")
      PROVE  tb0[t] = next_tb[ctx[t]] /\ tb0[t][2] = Now(t)
  <2>0. TypeInv /\ ScriptInv /\ TimeInv /\ cfg \in Settings /\ "out" \in Steps
    BY <1>1 DEF IInv, TypeInv, Steps, Kinds
  <2>1. InIteration(t)
    BY <1>1, <2>0, Within
  <2>2. Pos(t) = Where("out")
    <3>1. todo[t] # <<>> /\ Head(todo[t]) = "out"
      BY <1>1 DEF At
    <3>2. Pos(t) \in Nat /\ OpAt(Pos(t) + 1, "out")
      BY <2>0, <2>1, <3>1, Stands
    <3> QED
      BY <2>0, <3>2, Places
  <2>3. Pos(t) > Where("tb") /\ Pos(t) > Where("tb0")
    BY <2>0, <2>2, Flags DEF Where
  <2> QED
    BY <2>0, <2>1, <2>3 DEF TimeInv
<1>2. IInv => CommonTarget
  BY <1>1 DEF CommonTarget
<1> QED
  BY <1>2, HarnessInvariance, PTL

LEMMA AllJoined ==
  ASSUME IInv, Joined, NEW k \in Insts
  PROVE  count[k] = size * Cardinality(Active(k))
<1>0. TypeInv /\ ScriptInv /\ RowInv
  BY DEF IInv
<1>1. PICK R \in Nat : GlobalInv(R) /\ CountInv(R)
  BY DEF IInv, GlobalIInv
<1>2. nruns \in Nat /\ size \in Nat /\ size > 0 /\ 0 \in Tids
  BY Parameters
<1>3. ASSUME NEW t \in Tids
      PROVE  /\ nrun[t] = nruns /\ todo[t] = <<>> /\ ~InIteration(t) /\ Begun(t) = nruns * size
             /\ R = 2 * Starts(t)
  <2>1. nrun[t] = nruns /\ todo[t] = <<>>
    BY <1>0 DEF Joined, ScriptInv, ScriptOf
  <2>2. ~InIteration(t) /\ ~InSetRole(t) /\ Begun(t) = nruns * size
    BY <1>2, <2>1 DEF InIteration, InSetRole, Running, Begun
  <2>3. GBehind(t) = R
    BY <1>1, <2>1 DEF GlobalInv, Round, At
  <2>4. Starts(t) \in Nat
    BY <1>0, <1>2, GlobalPlace
  <2>5. R = 2 * Starts(t)
    BY <2>2, <2>3, <2>4 DEF GBehind, GRem
  <2> QED
    BY <2>1, <2>2, <2>5
<1>4. CountOf(k, R)
  BY <1>1 DEF CountInv
<1>5. CASE nruns = 0
  <2>1. R = 0
    BY <1>2, <1>3, <1>5 DEF Starts
  <2>2. count[k] = 0
    BY <1>4, <2>1 DEF CountOf
  <2>3. Active(k) = {}
    BY <1>5 DEF Active
  <2> QED
    BY <1>2, <2>2, <2>3, FS_EmptySet
<1>6. CASE nruns > 0
  <2> DEFINE h == IF Fixed THEN 1 ELSE nruns
  <2>1. \A t \in Tids : Starts(t) = h
    BY <1>2, <1>3, <1>6 DEF Starts
  <2>2. h \in Nat /\ h > 0 /\ h <= nruns /\ R = 2 * h
    BY <1>2, <1>3, <1>6, <2>1
  <2>3. h \in Nat /\ h > 0 /\ h <= nruns /\ R = 2 * h /\ (Fixed => h = 1) /\ (~Fixed => h = nruns)
    BY <2>2
  <2> HIDE DEF h
  <2>4. (\A t \in Tids : Held(t) = h) /\ GlobalInv(2 * h)
    BY <1>0, <1>1, <2>3, EvenRound
  <2>5. /\ Members(k) = IF k < cfg.nexe THEN Crew(RowOf(h), k) ELSE {}
        /\ Members(k) # {} => \E t \in Members(k) : myrole[t] = 0
    BY <1>0, <2>3, <2>4, Crews, Parameters
  <2>6. R # 0 /\ R % 2 = 0 /\ R \div 2 = h
    BY <2>3
  <2>7. /\ \A t \in Tids : ctx[t] = k /\ myrole[t] = 0 =>
             count[k] = Past(k, h - 1) + (Latest(t, "hash_add") - Base(h))
        /\ (\A t \in Tids : ctx[t] = k => myrole[t] # 0) => count[k] = Past(k, h - 1)
    BY <1>4, <2>6 DEF CountOf
  <2>8. \A t \in Tids : Latest(t, "hash_add") = nruns * size
    <3>1. nruns * size \in Int
      BY <1>2
    <3> QED
      BY <1>3, <3>1 DEF Latest, One
  <2>9. /\ Members(k) # {} => count[k] = Past(k, h - 1) + (nruns * size - Base(h))
        /\ Members(k) = {} => count[k] = Past(k, h - 1)
    BY <2>5, <2>7, <2>8 DEF Members
  <2>10. CASE Fixed
    <3>1. Past(k, h - 1) = 0 /\ Base(h) = 0 /\ RowOf(h) = cfg.part
      BY <2>10, PastSteps DEF Base, RowOf
    <3>2. Active(k) = IF Members(k) # {} THEN 0 .. nruns - 1 ELSE {}
      BY <2>5, <2>10, <3>1 DEF Active
    <3>3. Cardinality(0 .. nruns - 1) = nruns /\ Cardinality({}) = 0
      BY <1>2, <1>6, FS_Interval, FS_EmptySet
    <3>4. nruns * size = size * nruns /\ size * nruns \in Int /\ size * 0 = 0
      BY <1>2
    <3> QED
      BY <2>9, <3>1, <3>2, <3>3, <3>4
  <2>11. CASE ~Fixed
    <3>1. RowOf(h) = draws[nruns - 1] /\ Base(h) = (nruns - 1) * size
      BY <2>3, <2>11 DEF Base, RowOf
    <3>2. nruns - 1 \in Active(k) <=> Members(k) # {}
      <4>1. nruns - 1 \in 0 .. nruns - 1
        BY <1>2, <1>6
      <4> QED
        BY <2>5, <2>11, <3>1, <4>1 DEF Active
    <3>3. nruns \in 1 .. nruns
      BY <1>2, <1>6
    <3>4. /\ Past(k, nruns) = Past(k, nruns - 1) + (IF nruns - 1 \in Active(k) THEN size ELSE 0)
          /\ Past(k, nruns) = size * Cardinality(Active(k))
      BY <2>11, <3>3, PastSteps
    <3>5. nruns * size - (nruns - 1) * size = size
      BY <1>2
    <3>6. Past(k, nruns - 1) \in Int
      BY Actives
    <3> QED
      BY <1>2, <2>3, <2>9, <2>11, <3>1, <3>2, <3>4, <3>5, <3>6
  <2> QED
    BY <2>10, <2>11
<1> QED
  BY <1>2, <1>5, <1>6

\* When the threads are joined each instance has recorded one outcome for each
\* iteration of each run it was active in, for any rows and any number of runs:
\* no role but the first records, and no outcome is lost between two crews.
THEOREM OutcomesCounted == Spec => []Counted
<1>1. IInv => Counted
  BY AllJoined DEF Counted
<1> QED
  BY <1>1, HarnessInvariance, PTL
=============================================================================
