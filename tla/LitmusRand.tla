----------------------------- MODULE LitmusRand -----------------------------
(***************************************************************************)
(* Random numbers of the runtime, litmus/_litmus_rand.c: a linear          *)
(* congruence modulo 2^32 whose halves are swapped, and rand_k, which      *)
(* draws until it finds a number in a whole block of k values.  The width  *)
(* is a parameter: the program has W = 32.                                 *)
(***************************************************************************)
EXTENDS Integers, FiniteSets

CONSTANT W      \* bits of a uint32_t

\* The last conjunct is there for proofs.
ASSUME WAssumption == W \in Nat \ {0} /\ W % 2 = 0 /\ 2 ^ (W \div 2) > 0

Size  == 2 ^ W
Half  == 2 ^ (W \div 2)
Seeds == 0 .. Size - 1
r_max == Size - 1

\* Plausible error: numbers of the last, partial, block are accepted.
AcceptsAny(r, n) == r % n

\* One draw: the next seed, and the number it gives, halves swapped.
NextSeed(s) == (69069 * s + 25173) % Size
unlocked_rand(s) == (NextSeed(s) \div Half) + (NextSeed(s) % Half) * Half

\* The value of rand_k for the number r, -1 if it has to draw again.
Accepts(r, n) == IF r - (r % n) > r_max - n + 1 THEN -1 ELSE r % n

\* The numbers that come from all the seeds, and the values of rand_k(st,n)
\* for each n.
Drawn == {unlocked_rand(s) : s \in Seeds}
rand_k == [n \in 1 .. Size - 1 |-> {Accepts(r, n) : r \in Drawn} \ {-1}]

\* Each number comes from one seed, and every value below n at once from as many
\* numbers: what is drawn with rand_k is uniform whether n is a power of two or
\* not.
Uniform(n) ==
  /\ rand_k[n] = 0 .. n - 1
  /\ Cardinality(Drawn) = Size
  /\ \A x \in 0 .. n - 1 :
       Cardinality({r \in Drawn : Accepts(r, n) = x}) = Size \div n
=============================================================================
