--------------------------- MODULE MCPresiHarness ---------------------------
EXTENDS PresiHarness
\* Two rows of a topology for four threads: two instances; one instance that
\* takes a thread of each of them, and two idle threads.
Row(a, b, c, d) == [t \in 0 .. 3 |-> <<a, b, c, d>>[t + 1]]
MCinst == [p \in 0 .. 1 |-> IF p = 0 THEN Row(0, 0, 1, 1) ELSE Row(-1, 0, -1, 0)]
MCrole == [p \in 0 .. 1 |-> IF p = 0 THEN Row(0, 1, 0, 1) ELSE Row(-1, 1, -1, 0)]
Setting(p, n, c, g, f) == [part |-> p, nexe |-> n, cache |-> c, globals |-> g, finals |-> f]
MCSettings == {Setting(-1, 2, FALSE, TRUE, TRUE), Setting(-1, 1, TRUE, TRUE, FALSE),
               Setting(1, 2, FALSE, FALSE, FALSE)}
=============================================================================
