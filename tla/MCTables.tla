------------------------------ MODULE MCTables ------------------------------
(* Two histograms, two locations of three values, four outcomes in all:     *)
(* lists of up to three cells on both levels, in every order of arrival.    *)
(* Four outcomes for the three entries of a hash table; two of them collide *)
(* at the last entry.                                                       *)
EXTENDS Tables

MCPos == {o \in Outcomes : o[0] = 1}

MCKeys == {"k0", "k1", "k2", "k3"}
MChash_log == [k \in MCKeys |-> CASE k = "k0" -> 2 [] k = "k1" -> 5 [] k = "k2" -> 2 [] OTHER -> 0]
=============================================================================
