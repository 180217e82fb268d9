------------------------------- MODULE MCZyva -------------------------------
(* Two instances of a test of two threads, two runs, one outcome per run    *)
(* (two runs are enough for stop_now to be set in one and seen in the next).*)
EXTENDS Zyva

\* Fewer processors than threads, one of them named twice, and more.
MCCpus == {<<0, 1, 2>>, <<0, 1, 1, 2>>, <<0, 1, 2, 3, 4>>}

\* Increments, or a topology in which the second instance does not fit.
MCFilled == {[s \in Slots |-> s], [s \in Slots |-> IF s < 2 THEN 1 - s ELSE -1]}

\* Rotations, and exchanges between the two instances, of four and of five.
MCShuffles ==
  UNION {{[s \in 0 .. m - 1 |-> (s + 1) % m],
          [s \in 0 .. m - 1 |-> CASE s = 0 -> 3 [] s = 3 -> 0 [] OTHER -> s]} : m \in {4, 5}}

MCcpu_scan == << [s \in Slots |-> (s + 1) % 4],
                 [s \in Slots |-> IF s < 2 THEN 3 - s ELSE -1] >>
=============================================================================
